---------------------------- MODULE Spec2Model ----------------------------
(***************************************************************************)
(* Model of the NV2A shader generator, src/hw/xbox/nv2a/shaders.c:         *)
(* generate_geometry_shader, generate_vertex_shader, create_gl_shader and  *)
(* generate_shaders, together with the execution of the generated          *)
(* geometry-stage program on the primitives of a draw.                     *)
(*                                                                         *)
(* Generated text is a sequence of lines (each line a string without its   *)
(* trailing newline); mstring_append is concatenation of such sequences.   *)
(*                                                                         *)
(* Spec is one call of generate_shaders and the draw that follows;         *)
(* VertexSpec applies generate_vertex_shader to every vertex configuration *)
(* and runs the text on a vertex; RepeatedSpec is several calls of         *)
(* generate_shaders in one process.                                        *)
(***************************************************************************)
EXTENDS Integers, Sequences, FiniteSets, TLC

(***************************************************************************)
(* Bounds of the model.                                                    *)
(***************************************************************************)
\* number of input primitives (gl_PrimitiveIDIn = 0 .. MaxPrimitives-1) of a draw
MaxPrimitives == 4

NULL == "NULL"
UNINIT == "UNINIT"

(***************************************************************************)
(* Enumerations (shaders.h: ShaderPolygonMode, ShaderPrimitiveMode).  The  *)
(* *_INVALID members stand for any value outside the declared variants.    *)
(***************************************************************************)
PolygonModes == {"POLY_MODE_FILL", "POLY_MODE_POINT", "POLY_MODE_LINE"}

PrimitiveModes ==
    {"PRIM_TYPE_POINTS", "PRIM_TYPE_LINES", "PRIM_TYPE_LINE_LOOP",
     "PRIM_TYPE_LINE_STRIP", "PRIM_TYPE_TRIANGLES", "PRIM_TYPE_TRIANGLE_STRIP",
     "PRIM_TYPE_TRIANGLE_FAN", "PRIM_TYPE_QUADS", "PRIM_TYPE_QUAD_STRIP",
     "PRIM_TYPE_POLYGON"}

AnyPolygonMode == PolygonModes \cup {"POLY_MODE_INVALID"}

AnyPrimitiveMode == PrimitiveModes \cup {"PRIM_TYPE_INVALID"}

(***************************************************************************)
(* generate_geometry_shader: the bodies of the generated main().           *)
(***************************************************************************)
\* faulty variant: the strip is not closed (the last emit_vertex(0) is missing)
BodyTrianglesLine_Open ==
    << "  emit_vertex(0);",
       "  emit_vertex(1);",
       "  emit_vertex(2);",
       "  EndPrimitive();" >>

BodyTrianglesLine ==
    << "  emit_vertex(0);",
       "  emit_vertex(1);",
       "  emit_vertex(2);",
       "  emit_vertex(0);",
       "  EndPrimitive();" >>

\* faulty variant: odd primitives emit in the order of even ones
BodyTriangleStripLine_SameOrder ==
    << "  if ((gl_PrimitiveIDIn & 1) == 0) {",
       "    if (gl_PrimitiveIDIn == 0) {",
       "      emit_vertex(0);",
       "    }",
       "    emit_vertex(1);",
       "    emit_vertex(2);",
       "    emit_vertex(0);",
       "  } else {",
       "    emit_vertex(1);",
       "    emit_vertex(2);",
       "    emit_vertex(0);",
       "  }",
       "  EndPrimitive();" >>

BodyTriangleStripLine ==
    << "  if ((gl_PrimitiveIDIn & 1) == 0) {",
       "    if (gl_PrimitiveIDIn == 0) {",
       "      emit_vertex(0);",
       "    }",
       "    emit_vertex(1);",
       "    emit_vertex(2);",
       "    emit_vertex(0);",
       "  } else {",
       "    emit_vertex(2);",
       "    emit_vertex(1);",
       "    emit_vertex(0);",
       "  }",
       "  EndPrimitive();" >>

\* faulty variant: the leading vertex is emitted for every primitive
BodyTriangleFanLine_AlwaysLeading ==
    << "  emit_vertex(0);",
       "  emit_vertex(1);",
       "  emit_vertex(2);",
       "  emit_vertex(0);",
       "  EndPrimitive();" >>

BodyTriangleFanLine ==
    << "  if (gl_PrimitiveIDIn == 0) {",
       "    emit_vertex(0);",
       "  }",
       "  emit_vertex(1);",
       "  emit_vertex(2);",
       "  emit_vertex(0);",
       "  EndPrimitive();" >>

\* faulty variant: the outline is closed one vertex too far
BodyQuadsLine_Overrun ==
    << "  emit_vertex(0);",
       "  emit_vertex(1);",
       "  emit_vertex(2);",
       "  emit_vertex(3);",
       "  emit_vertex(0);",
       "  emit_vertex(1);",
       "  EndPrimitive();" >>

BodyQuadsLine ==
    << "  emit_vertex(0);",
       "  emit_vertex(1);",
       "  emit_vertex(2);",
       "  emit_vertex(3);",
       "  emit_vertex(0);",
       "  EndPrimitive();" >>

\* faulty variant: the winding is not corrected (order 0,1,2,3)
BodyQuadsFill_Unswapped ==
    << "  emit_vertex(0);",
       "  emit_vertex(1);",
       "  emit_vertex(2);",
       "  emit_vertex(3);",
       "  EndPrimitive();" >>

BodyQuadsFill ==
    << "  emit_vertex(0);",
       "  emit_vertex(1);",
       "  emit_vertex(3);",
       "  emit_vertex(2);",
       "  EndPrimitive();" >>

\* faulty variant: the leading vertex of primitive 0 is missing
BodyQuadStripLine_NoLeading ==
    << "  if ((gl_PrimitiveIDIn & 1) != 0) { return; }",
       "  emit_vertex(1);",
       "  emit_vertex(3);",
       "  emit_vertex(2);",
       "  emit_vertex(0);",
       "  EndPrimitive();" >>

BodyQuadStripLine ==
    << "  if ((gl_PrimitiveIDIn & 1) != 0) { return; }",
       "  if (gl_PrimitiveIDIn == 0) {",
       "    emit_vertex(0);",
       "  }",
       "  emit_vertex(1);",
       "  emit_vertex(3);",
       "  emit_vertex(2);",
       "  emit_vertex(0);",
       "  EndPrimitive();" >>

\* faulty variant: odd primitives are not skipped
BodyQuadStripFill_NoSkip ==
    << "  emit_vertex(0);",
       "  emit_vertex(1);",
       "  emit_vertex(2);",
       "  emit_vertex(3);",
       "  EndPrimitive();" >>

BodyQuadStripFill ==
    << "  if ((gl_PrimitiveIDIn & 1) != 0) { return; }",
       "  emit_vertex(0);",
       "  emit_vertex(1);",
       "  emit_vertex(2);",
       "  emit_vertex(3);",
       "  EndPrimitive();" >>

LayoutInTriangles == "layout(triangles) in;"

LayoutInLinesAdjacency == "layout(lines_adjacency) in;"

LayoutOutLineStrip4 == "layout(line_strip, max_vertices = 4) out;"

LayoutOutLineStrip5 == "layout(line_strip, max_vertices = 5) out;"

LayoutOutTriangleStrip4 == "layout(triangle_strip, max_vertices = 4) out;"

\* STRUCT_VERTEX_DATA (shaders_common.h): the declaration of struct VertexData
STRUCT_VERTEX_DATA == << "STRUCT_VERTEX_DATA" >>


(***************************************************************************)
(* generate_geometry_shader.  The result of a call:                        *)
(*   fatal             an assert failed (the process aborts)               *)
(*   gl_primitive_mode the value of *gl_primitive_mode after the call      *)
(*                     (cur, the caller's value, when it was not written)  *)
(*   layout_in, layout_out, body   the locals of the same names, NULL when *)
(*                     the call returned NULL before the text is assembled *)
(***************************************************************************)
GeomFatal(mode) ==
    [fatal |-> TRUE, gl_primitive_mode |-> mode,
     layout_in |-> NULL, layout_out |-> NULL, body |-> << >>]

GeomNone(mode) ==
    [fatal |-> FALSE, gl_primitive_mode |-> mode,
     layout_in |-> NULL, layout_out |-> NULL, body |-> << >>]

GeomProgram(mode, lin, lout, b) ==
    [fatal |-> FALSE, gl_primitive_mode |-> mode,
     layout_in |-> lin, layout_out |-> lout, body |-> b]

\* faulty variant: the assert is not checked
FrontBackAssert_NotChecked(polygon_front_mode, polygon_back_mode) == TRUE

\* assert(polygon_front_mode == polygon_back_mode)
FrontBackAssert(polygon_front_mode, polygon_back_mode) ==
    polygon_front_mode = polygon_back_mode

\* case PRIM_TYPE_TRIANGLES
CaseTriangles(polygon_mode) ==
    IF polygon_mode = "POLY_MODE_FILL" THEN GeomNone("GL_TRIANGLES")
    ELSE IF polygon_mode # "POLY_MODE_LINE" THEN GeomFatal("GL_TRIANGLES")
    ELSE GeomProgram("GL_TRIANGLES", LayoutInTriangles, LayoutOutLineStrip4,
                     BodyTrianglesLine)

\* case PRIM_TYPE_TRIANGLE_STRIP
CaseTriangleStrip(polygon_mode) ==
    IF polygon_mode = "POLY_MODE_FILL" THEN GeomNone("GL_TRIANGLE_STRIP")
    ELSE IF polygon_mode # "POLY_MODE_LINE" THEN GeomFatal("GL_TRIANGLE_STRIP")
    ELSE GeomProgram("GL_TRIANGLE_STRIP", LayoutInTriangles,
                     LayoutOutLineStrip4, BodyTriangleStripLine)

\* case PRIM_TYPE_TRIANGLE_FAN
CaseTriangleFan(polygon_mode) ==
    IF polygon_mode = "POLY_MODE_FILL" THEN GeomNone("GL_TRIANGLE_FAN")
    ELSE IF polygon_mode # "POLY_MODE_LINE" THEN GeomFatal("GL_TRIANGLE_FAN")
    ELSE GeomProgram("GL_TRIANGLE_FAN", LayoutInTriangles,
                     LayoutOutLineStrip4, BodyTriangleFanLine)

\* case PRIM_TYPE_QUADS
CaseQuads(polygon_mode) ==
    IF polygon_mode = "POLY_MODE_LINE"
    THEN GeomProgram("GL_LINES_ADJACENCY", LayoutInLinesAdjacency,
                     LayoutOutLineStrip5, BodyQuadsLine)
    ELSE IF polygon_mode = "POLY_MODE_FILL"
    THEN GeomProgram("GL_LINES_ADJACENCY", LayoutInLinesAdjacency,
                     LayoutOutTriangleStrip4, BodyQuadsFill)
    ELSE GeomFatal("GL_LINES_ADJACENCY")

\* faulty variant: quad strips are drawn as GL_LINES_ADJACENCY
CaseQuadStrip_LinesAdjacency(polygon_mode) ==
    IF polygon_mode = "POLY_MODE_LINE"
    THEN GeomProgram("GL_LINES_ADJACENCY", LayoutInLinesAdjacency,
                     LayoutOutLineStrip5, BodyQuadStripLine)
    ELSE IF polygon_mode = "POLY_MODE_FILL"
    THEN GeomProgram("GL_LINES_ADJACENCY", LayoutInLinesAdjacency,
                     LayoutOutTriangleStrip4, BodyQuadStripFill)
    ELSE GeomFatal("GL_LINES_ADJACENCY")

\* case PRIM_TYPE_QUAD_STRIP
CaseQuadStrip(polygon_mode) ==
    IF polygon_mode = "POLY_MODE_LINE"
    THEN GeomProgram("GL_LINE_STRIP_ADJACENCY", LayoutInLinesAdjacency,
                     LayoutOutLineStrip5, BodyQuadStripLine)
    ELSE IF polygon_mode = "POLY_MODE_FILL"
    THEN GeomProgram("GL_LINE_STRIP_ADJACENCY", LayoutInLinesAdjacency,
                     LayoutOutTriangleStrip4, BodyQuadStripFill)
    ELSE GeomFatal("GL_LINE_STRIP_ADJACENCY")

\* faulty variant: the two polygon topologies are swapped
CasePolygon_Swapped(polygon_mode, cur) ==
    IF polygon_mode = "POLY_MODE_LINE" THEN GeomNone("GL_TRIANGLE_FAN")
    ELSE IF polygon_mode = "POLY_MODE_FILL" THEN GeomNone("GL_LINE_LOOP")
    ELSE GeomFatal(cur)

\* case PRIM_TYPE_POLYGON
CasePolygon(polygon_mode, cur) ==
    IF polygon_mode = "POLY_MODE_LINE" THEN GeomNone("GL_LINE_LOOP")
    ELSE IF polygon_mode = "POLY_MODE_FILL" THEN GeomNone("GL_TRIANGLE_FAN")
    ELSE GeomFatal(cur)

\* faulty variant: the default case returns NULL without asserting
PrimitiveSwitch_DefaultReturns(polygon_mode, primitive_mode, cur) ==
    CASE primitive_mode = "PRIM_TYPE_POINTS" -> GeomNone("GL_POINTS")
      [] primitive_mode = "PRIM_TYPE_LINES" -> GeomNone("GL_LINES")
      [] primitive_mode = "PRIM_TYPE_LINE_LOOP" -> GeomNone("GL_LINE_LOOP")
      [] primitive_mode = "PRIM_TYPE_LINE_STRIP" -> GeomNone("GL_LINE_STRIP")
      [] primitive_mode = "PRIM_TYPE_TRIANGLES" -> CaseTriangles(polygon_mode)
      [] primitive_mode = "PRIM_TYPE_TRIANGLE_STRIP" ->
             CaseTriangleStrip(polygon_mode)
      [] primitive_mode = "PRIM_TYPE_TRIANGLE_FAN" ->
             CaseTriangleFan(polygon_mode)
      [] primitive_mode = "PRIM_TYPE_QUADS" -> CaseQuads(polygon_mode)
      [] primitive_mode = "PRIM_TYPE_QUAD_STRIP" -> CaseQuadStrip(polygon_mode)
      [] primitive_mode = "PRIM_TYPE_POLYGON" -> CasePolygon(polygon_mode, cur)
      [] OTHER -> GeomNone(cur)

\* switch (primitive_mode)
PrimitiveSwitch(polygon_mode, primitive_mode, cur) ==
    CASE primitive_mode = "PRIM_TYPE_POINTS" -> GeomNone("GL_POINTS")
      [] primitive_mode = "PRIM_TYPE_LINES" -> GeomNone("GL_LINES")
      [] primitive_mode = "PRIM_TYPE_LINE_LOOP" -> GeomNone("GL_LINE_LOOP")
      [] primitive_mode = "PRIM_TYPE_LINE_STRIP" -> GeomNone("GL_LINE_STRIP")
      [] primitive_mode = "PRIM_TYPE_TRIANGLES" -> CaseTriangles(polygon_mode)
      [] primitive_mode = "PRIM_TYPE_TRIANGLE_STRIP" ->
             CaseTriangleStrip(polygon_mode)
      [] primitive_mode = "PRIM_TYPE_TRIANGLE_FAN" ->
             CaseTriangleFan(polygon_mode)
      [] primitive_mode = "PRIM_TYPE_QUADS" -> CaseQuads(polygon_mode)
      [] primitive_mode = "PRIM_TYPE_QUAD_STRIP" -> CaseQuadStrip(polygon_mode)
      [] primitive_mode = "PRIM_TYPE_POLYGON" -> CasePolygon(polygon_mode, cur)
      [] OTHER -> GeomFatal(cur)

\* POINT mode shouldn't require any special work
PointModeCase(polygon_mode, primitive_mode, cur) ==
    IF polygon_mode = "POLY_MODE_POINT"
    THEN GeomNone("GL_POINTS")
    ELSE PrimitiveSwitch(polygon_mode, primitive_mode, cur)

\* the text assembled from layout_in, layout_out and body
GeometryShaderText(layout_in, layout_out, body) ==
    << "#version 330", "" >>
    \o << layout_in >>
    \o << layout_out >>
    \o << "" >>
    \o STRUCT_VERTEX_DATA
    \o << "noperspective in VertexData v_vtx[];",
          "noperspective out VertexData g_vtx;",
          "",
          "void emit_vertex(int index) {",
          "  gl_Position = gl_in[index].gl_Position;",
          "  gl_PointSize = gl_in[index].gl_PointSize;",
          "  g_vtx = v_vtx[index];",
          "  EmitVertex();",
          "}",
          "",
          "void main() {" >>
    \o body
    \o << "}" >>

\* the whole call: [fatal, gl_primitive_mode, code], code = NULL for "no program"
generate_geometry_shader(polygon_front_mode, polygon_back_mode, primitive_mode, cur) ==
    IF ~FrontBackAssert(polygon_front_mode, polygon_back_mode)
    THEN [fatal |-> TRUE, gl_primitive_mode |-> cur, code |-> << >>,
          has_code |-> FALSE]
    ELSE LET r == PointModeCase(polygon_front_mode, primitive_mode, cur)
         IN  IF r.fatal \/ r.layout_in = NULL
             THEN [fatal |-> r.fatal, gl_primitive_mode |-> r.gl_primitive_mode,
                   code |-> << >>, has_code |-> FALSE]
             ELSE [fatal |-> FALSE, gl_primitive_mode |-> r.gl_primitive_mode,
                   code |-> GeometryShaderText(r.layout_in, r.layout_out, r.body),
                   has_code |-> TRUE]

(***************************************************************************)
(* Execution of a generated geometry-stage program for one input           *)
(* primitive: the statements of main() are run with gl_PrimitiveIDIn = id. *)
(* The output is the sequence of events "v<k>" (emit_vertex(k), i.e.       *)
(* EmitVertex with the outputs copied from input vertex k) and "End"       *)
(* (EndPrimitive).                                                         *)
(***************************************************************************)
Indents == {"  ", "    ", "      "}

EmitStmt(k) == "emit_vertex(" \o ToString(k) \o ");"

VertexEvent(k) == "v" \o ToString(k)

EndEvent == "End"

Statements ==
    {EmitStmt(k) : k \in 0..3}
    \cup {"EndPrimitive();",
          "if ((gl_PrimitiveIDIn & 1) == 0) {",
          "if ((gl_PrimitiveIDIn & 1) != 0) { return; }",
          "if (gl_PrimitiveIDIn == 0) {",
          "} else {",
          "}"}

\* the statement of a line: the line without its indentation
Stmt(line) == CHOOSE s \in Statements : \E ind \in Indents : line = ind \o s

\* the condition of an if statement, for primitive id
Cond(s, id) ==
    CASE s = "if ((gl_PrimitiveIDIn & 1) == 0) {" -> id % 2 = 0
      [] s = "if ((gl_PrimitiveIDIn & 1) != 0) { return; }" -> id % 2 # 0
      [] s = "if (gl_PrimitiveIDIn == 0) {" -> id = 0

RECURSIVE Exec(_, _, _, _, _)
\* stack: one entry per open block, [active, else_active]
Exec(lines, i, id, stack, out) ==
    IF i > Len(lines) THEN out
    ELSE LET s == Stmt(lines[i])
             active == stack = << >> \/ stack[Len(stack)].active
             parent == Len(stack) <= 1 \/ stack[Len(stack) - 1].active
         IN  CASE s \in {EmitStmt(k) : k \in 0..3} ->
                    LET k == CHOOSE k \in 0..3 : s = EmitStmt(k)
                    IN  Exec(lines, i + 1, id, stack,
                             IF active THEN Append(out, VertexEvent(k)) ELSE out)
               [] s = "EndPrimitive();" ->
                    Exec(lines, i + 1, id, stack,
                         IF active THEN Append(out, EndEvent) ELSE out)
               [] s = "if ((gl_PrimitiveIDIn & 1) != 0) { return; }" ->
                    IF active /\ Cond(s, id) THEN out
                    ELSE Exec(lines, i + 1, id, stack, out)
               [] s \in {"if ((gl_PrimitiveIDIn & 1) == 0) {",
                         "if (gl_PrimitiveIDIn == 0) {"} ->
                    Exec(lines, i + 1, id,
                         Append(stack, [active |-> active /\ Cond(s, id),
                                        else_active |-> active /\ ~Cond(s, id)]),
                         out)
               [] s = "} else {" ->
                    Exec(lines, i + 1, id,
                         [stack EXCEPT ![Len(stack)] =
                             [active |-> stack[Len(stack)].else_active,
                              else_active |-> FALSE]],
                         out)
               [] s = "}" ->
                    Exec(lines, i + 1, id, SubSeq(stack, 1, Len(stack) - 1), out)

\* the statements of main(): the lines between "void main() {" and the last "}"
MainBody(code) ==
    LET m == CHOOSE i \in 1..Len(code) : code[i] = "void main() {"
    IN  SubSeq(code, m + 1, Len(code) - 1)

\* the events one input primitive produces
RunGeometryShader(code, id) == Exec(MainBody(code), 1, id, << >>, << >>)

(***************************************************************************)
(* Program constants (nv2a_regs.h / shaders.h).                            *)
(***************************************************************************)
NV2A_VERTEXSHADER_ATTRIBUTES == 16

NV2A_MAX_TEXTURES == 4

NV2A_MAX_LIGHTS == 8

(***************************************************************************)
(* Enumerations of the vertex pipeline (shaders.h).                        *)
(***************************************************************************)
SkinningModes ==
    {"SKINNING_OFF", "SKINNING_1WEIGHTS", "SKINNING_2WEIGHTS2MATRICES",
     "SKINNING_2WEIGHTS", "SKINNING_3WEIGHTS3MATRICES", "SKINNING_3WEIGHTS",
     "SKINNING_4WEIGHTS4MATRICES"}

TexgenModes ==
    {"TEXGEN_DISABLE", "TEXGEN_EYE_LINEAR", "TEXGEN_OBJECT_LINEAR",
     "TEXGEN_SPHERE_MAP", "TEXGEN_REFLECTION_MAP", "TEXGEN_NORMAL_MAP"}

LightTypes == {"LIGHT_OFF", "LIGHT_INFINITE", "LIGHT_LOCAL", "LIGHT_SPOT"}

MaterialColorSources ==
    {"MATERIAL_COLOR_SRC_MATERIAL", "MATERIAL_COLOR_SRC_DIFFUSE",
     "MATERIAL_COLOR_SRC_SPECULAR"}

FoggenModes ==
    {"FOGGEN_SPEC_ALPHA", "FOGGEN_RADIAL", "FOGGEN_PLANAR",
     "FOGGEN_ABS_PLANAR", "FOGGEN_FOG_X"}

FogModes ==
    {"FOG_MODE_LINEAR", "FOG_MODE_LINEAR_ABS", "FOG_MODE_EXP",
     "FOG_MODE_EXP_ABS", "FOG_MODE_EXP2", "FOG_MODE_EXP2_ABS"}

(***************************************************************************)
(* Text helpers.                                                           *)
(***************************************************************************)
\* "%d"
D(i) == ToString(i)

\* "%f" of an integral value
F(x) == ToString(x) \o ".000000"

\* "xyzw"[j] and "STRQ"[j], j = 0..3
Swz(j) == <<"x", "y", "z", "w">>[j + 1]

StrqSuffix(j) == <<"S", "T", "R", "Q">>[j + 1]

\* GLSL_C(idx): "c[" stringify(idx) "]"; idx is kept as the register name
GLSL_C(idx) == "c[" \o idx \o "]"

GLSL_LTCTXA(idx) == "ltctxa[" \o idx \o "]"

GLSL_C_MAT4(idx) ==
    "mat4(" \o GLSL_C(idx) \o ", " \o GLSL_C(idx \o "+1") \o ", "
            \o GLSL_C(idx \o "+2") \o ", " \o GLSL_C(idx \o "+3") \o ")"

GLSL_DEFINE(a, b) == "#define " \o a \o " " \o b

RECURSIVE Concat(_)
\* the concatenation of a sequence of texts
Concat(ts) == IF ts = << >> THEN << >> ELSE Head(ts) \o Concat(Tail(ts))

\* any(fs): some flag of the sequence is set
AnyFatal(rs) == \E k \in 1..Len(rs) : rs[k].fatal

(***************************************************************************)
(* append_skinning_code.  Returns [fatal, text].                           *)
(***************************************************************************)
RECURSIVE SkinMixLoop_NoSubtract(_, _, _, _, _, _)
\* faulty variant: the running remainder weight_n is never reduced
SkinMixLoop_NoSubtract(i, count, output, input, matrix, swizzle) ==
    IF i >= count THEN << >>
    ELSE (IF i < count - 1
          THEN << "  weight_i = weight." \o Swz(i) \o ";" >>
          ELSE << "  weight_i = weight_n;" >>)
         \o << "  " \o output \o " += (" \o input \o " * " \o matrix \o D(i)
               \o")." \o swizzle \o " * weight_i;" >>
         \o SkinMixLoop_NoSubtract(i + 1, count, output, input, matrix, swizzle)

RECURSIVE SkinMixLoop(_, _, _, _, _, _)
\* for (i = 0; i < count; i++) of the unity-sum branch, from iteration i
SkinMixLoop(i, count, output, input, matrix, swizzle) ==
    IF i >= count THEN << >>
    ELSE (IF i < count - 1
          THEN << "  weight_i = weight." \o Swz(i) \o ";",
                  "  weight_n -= weight_i;" >>
          ELSE << "  weight_i = weight_n;" >>)
         \o << "  " \o output \o " += (" \o input \o " * " \o matrix \o D(i)
               \o")." \o swizzle \o " * weight_i;" >>
         \o SkinMixLoop(i + 1, count, output, input, matrix, swizzle)

RECURSIVE SkinIndividualLoop(_, _, _, _, _, _)
\* for (i = 0; i < count; i++) of the individual-weights branch
SkinIndividualLoop(i, count, output, input, matrix, swizzle) ==
    IF i >= count THEN << >>
    ELSE << output \o " += (" \o input \o " * " \o matrix \o D(i) \o ")."
            \o swizzle \o " * weight." \o Swz(i) \o ";" >>
         \o SkinIndividualLoop(i + 1, count, output, input, matrix, swizzle)

append_skinning_code(mix, count, type, output, input, matrix, swizzle) ==
    IF count = 0
    THEN [fatal |-> FALSE,
          text |-> << type \o " " \o output \o " = (" \o input \o " * "
                      \o matrix \o "0)." \o swizzle \o ";" >>]
    ELSE IF mix
    THEN [fatal |-> FALSE,
          text |-> << type \o " " \o output \o " = " \o type \o "(0.0);" >>
                   \o << "{", "  float weight_i;", "  float weight_n = 1.0;" >>
                   \o SkinMixLoop(0, count, output, input, matrix, swizzle)
                   \o << "}" >>]
    ELSE \* assert(false): FIXME: Untested
         [fatal |-> TRUE,
          text |-> << type \o " " \o output \o " = " \o type \o "(0.0);" >>
                   \o SkinIndividualLoop(0, count, output, input, matrix,
                                         swizzle)]

(***************************************************************************)
(* generate_fixed_function, block by block.  Every block returns           *)
(* [fatal, header, body]: the lines it appends to header and to body, and  *)
(* whether it reaches an assert that fails.                                *)
(***************************************************************************)
Block(f, h, b) == [fatal |-> f, header |-> h, body |-> b]

FixedFunctionHeader ==
    << "#define position      v0",
       "#define weight        v1",
       "#define normal        v2.xyz",
       "#define diffuse       v3",
       "#define specular      v4",
       "#define fogCoord      v5.x",
       "#define pointSize     v6",
       "#define backDiffuse   v7",
       "#define backSpecular  v8",
       "#define texture0      v9",
       "#define texture1      v10",
       "#define texture2      v11",
       "#define texture3      v12",
       "#define reserved1     v13",
       "#define reserved2     v14",
       "#define reserved3     v15",
       "",
       "uniform vec4 ltctxa[NV2A_LTCTXA_COUNT];",
       "uniform vec4 ltctxb[NV2A_LTCTXB_COUNT];",
       "uniform vec4 ltc1[NV2A_LTC1_COUNT];",
       "",
       GLSL_DEFINE("projectionMat", GLSL_C_MAT4("NV_IGRAPH_XF_XFCTX_PMAT0")),
       GLSL_DEFINE("compositeMat", GLSL_C_MAT4("NV_IGRAPH_XF_XFCTX_CMAT0")),
       "" >>
    \o Concat([i \in 1..4 |->
         LET n == D(i - 1)
             tg == "NV_IGRAPH_XF_XFCTX_TG" \o n \o "MAT"
         IN  << GLSL_DEFINE("texPlaneS" \o n, GLSL_C(tg \o " + 0")),
                GLSL_DEFINE("texPlaneT" \o n, GLSL_C(tg \o " + 1")),
                GLSL_DEFINE("texPlaneQ" \o n, GLSL_C(tg \o " + 2")),
                GLSL_DEFINE("texPlaneR" \o n, GLSL_C(tg \o " + 3")),
                "" >>])
    \o [i \in 1..4 |->
         GLSL_DEFINE("modelViewMat" \o D(i - 1),
                     GLSL_C_MAT4("NV_IGRAPH_XF_XFCTX_MMAT" \o D(i - 1)))]
    \o << "" >>
    \o [i \in 1..4 |->
         GLSL_DEFINE("invModelViewMat" \o D(i - 1),
                     GLSL_C_MAT4("NV_IGRAPH_XF_XFCTX_IMMAT" \o D(i - 1)))]
    \o << "",
          GLSL_DEFINE("eyePosition", GLSL_C("NV_IGRAPH_XF_XFCTX_EYEP")),
          "",
          "#define lightAmbientColor(i) ltctxb[NV_IGRAPH_XF_LTCTXB_L0_AMB + (i)*6].xyz",
          "#define lightDiffuseColor(i) ltctxb[NV_IGRAPH_XF_LTCTXB_L0_DIF + (i)*6].xyz",
          "#define lightSpecularColor(i) ltctxb[NV_IGRAPH_XF_LTCTXB_L0_SPC + (i)*6].xyz",
          "",
          "#define lightSpotFalloff(i) ltctxa[NV_IGRAPH_XF_LTCTXA_L0_K + (i)*2].xyz",
          "#define lightSpotDirection(i) ltctxa[NV_IGRAPH_XF_LTCTXA_L0_SPT + (i)*2]",
          "",
          "#define lightLocalRange(i) ltc1[NV_IGRAPH_XF_LTC1_r0 + (i)].x",
          "",
          GLSL_DEFINE("sceneAmbientColor",
                      GLSL_LTCTXA("NV_IGRAPH_XF_LTCTXA_FR_AMB") \o ".xyz"),
          GLSL_DEFINE("materialEmissionColor",
                      GLSL_LTCTXA("NV_IGRAPH_XF_LTCTXA_CM_COL") \o ".xyz"),
          "",
          "uniform mat4 invViewport;",
          "" >>

\* switch (state.skinning): [fatal, mix, count]
SkinningParams(skinning) ==
    CASE skinning = "SKINNING_OFF" -> [fatal |-> FALSE, mix |-> FALSE, count |-> 0]
      [] skinning = "SKINNING_1WEIGHTS" ->
             [fatal |-> FALSE, mix |-> TRUE, count |-> 2]
      [] skinning = "SKINNING_2WEIGHTS2MATRICES" ->
             [fatal |-> FALSE, mix |-> FALSE, count |-> 2]
      [] skinning = "SKINNING_2WEIGHTS" ->
             [fatal |-> FALSE, mix |-> TRUE, count |-> 3]
      [] skinning = "SKINNING_3WEIGHTS3MATRICES" ->
             [fatal |-> FALSE, mix |-> FALSE, count |-> 3]
      [] skinning = "SKINNING_3WEIGHTS" ->
             [fatal |-> FALSE, mix |-> TRUE, count |-> 4]
      [] skinning = "SKINNING_4WEIGHTS4MATRICES" ->
             [fatal |-> FALSE, mix |-> FALSE, count |-> 4]
      [] OTHER -> [fatal |-> TRUE, mix |-> FALSE, count |-> 0]

\* the value "%d" prints for state.skinning (the enumerator's ordinal)
SkinningOrdinal(skinning) ==
    CASE skinning = "SKINNING_OFF" -> 0
      [] skinning = "SKINNING_1WEIGHTS" -> 1
      [] skinning = "SKINNING_2WEIGHTS2MATRICES" -> 2
      [] skinning = "SKINNING_2WEIGHTS" -> 3
      [] skinning = "SKINNING_3WEIGHTS3MATRICES" -> 4
      [] skinning = "SKINNING_3WEIGHTS" -> 5
      [] skinning = "SKINNING_4WEIGHTS4MATRICES" -> 6
      [] OTHER -> 7

SkinningBlock(state) ==
    LET p == SkinningParams(state.skinning)
        pos == append_skinning_code(p.mix, p.count, "vec4", "tPosition",
                                    "position", "modelViewMat", "xyzw")
        nrm == append_skinning_code(p.mix, p.count, "vec3", "tNormal",
                                    "vec4(normal, 0.0)", "invModelViewMat",
                                    "xyz")
    IN  IF p.fatal THEN Block(TRUE, << >>, << >>)
        ELSE Block(pos.fatal \/ nrm.fatal, << >>,
                   << "/* Skinning mode " \o D(SkinningOrdinal(state.skinning))
                      \o " */" >>
                   \o pos.text \o nrm.text)

NormalizationBlock(state) ==
    Block(FALSE, << >>,
          IF state.normalization
          THEN << "tNormal = normalize(tNormal);" >> ELSE << >>)

\* switch (state.texgen[i][j]) for stage i, component j
TexgenComponent(i, j, mode) ==
    LET c == Swz(j)
        oT == "oT" \o D(i) \o "." \o c
    IN  CASE mode = "TEXGEN_DISABLE" ->
               Block(FALSE, << >>,
                     << oT \o " = texture" \o D(i) \o "." \o c \o ";" >>)
          [] mode = "TEXGEN_EYE_LINEAR" ->
               Block(FALSE, << >>,
                     << oT \o " = dot(texPlane" \o StrqSuffix(j) \o D(i)
                        \o ", tPosition);" >>)
          [] mode = "TEXGEN_OBJECT_LINEAR" ->
               \* assert(false): Untested
               Block(TRUE, << >>,
                     << oT \o " = dot(texPlane" \o StrqSuffix(j) \o D(i)
                        \o ", position);" >>)
          [] mode = "TEXGEN_SPHERE_MAP" ->
               \* assert(j < 2)
               Block(~(j < 2), << >>,
                     << "{",
                        "  vec3 u = normalize(tPosition.xyz);",
                        "  vec3 r = reflect(u, tNormal);",
                        "  float invM = 1.0 / (2.0 * length(r + vec3(0.0, 0.0, 1.0)));",
                        "  " \o oT \o " = r." \o c \o " * invM + 0.5;",
                        "}" >>)
          [] mode = "TEXGEN_REFLECTION_MAP" ->
               \* assert(j < 3)
               Block(~(j < 3), << >>,
                     << "{",
                        "  vec3 u = normalize(tPosition.xyz);",
                        "  vec3 r = reflect(u, tNormal);",
                        "  " \o oT \o " = r." \o c \o ";",
                        "}" >>)
          [] mode = "TEXGEN_NORMAL_MAP" ->
               \* assert(j < 3)
               Block(~(j < 3), << >>, << oT \o " = tNormal." \o c \o ";" >>)
          [] OTHER -> Block(TRUE, << >>, << >>)

\* for (i ...) for (j ...): state.texgen is indexed [i + 1][j + 1]
TexgenBlock(state) ==
    LET comp(i, j) == TexgenComponent(i, j, state.texgen[i + 1][j + 1])
        stage(i) ==
            << "/* Texgen for stage " \o D(i) \o " */" >>
            \o Concat([j \in 1..4 |-> comp(i, j - 1).body])
    IN  Block(\E i \in 0..NV2A_MAX_TEXTURES - 1, j \in 0..3 : comp(i, j).fatal,
              << >>,
              Concat([i \in 1..NV2A_MAX_TEXTURES |-> stage(i - 1)]))

\* Apply texture matrices
TextureMatrixBlock(state) ==
    Block(FALSE, << >>,
          Concat([i \in 1..NV2A_MAX_TEXTURES |->
                    IF state.texture_matrix_enable[i]
                    THEN << "oT" \o D(i - 1) \o " = oT" \o D(i - 1)
                            \o " * texMat" \o D(i - 1) \o ";" >>
                    ELSE << >>]))

\* faulty variant: the uniforms are declared in the body, where they are used
LightLocalPart_UniformsInBody(i) ==
    Block(FALSE,
          << >>,
          << "uniform vec3 lightLocalPosition" \o D(i) \o ";",
             "uniform vec3 lightLocalAttenuation" \o D(i) \o ";",
             "  vec3 VP = lightLocalPosition" \o D(i)
                \o " - tPosition.xyz/tPosition.w;",
             "  float d = length(VP);",
             "  VP = normalize(VP);",
             "  float attenuation = 1.0 / (lightLocalAttenuation" \o D(i) \o ".x",
             "                               + lightLocalAttenuation" \o D(i)
                \o ".y * d",
             "                               + lightLocalAttenuation" \o D(i)
                \o ".z * d * d);",
             "  vec3 halfVector = normalize(VP + eyePosition.xyz / eyePosition.w);",
             "  float nDotVP = max(0.0, dot(tNormal, VP));",
             "  float nDotHV = max(0.0, dot(tNormal, halfVector));" >>)

\* the uniforms and the first body lines of a local or spot light
LightLocalPart(i) ==
    Block(FALSE,
          << "uniform vec3 lightLocalPosition" \o D(i) \o ";",
             "uniform vec3 lightLocalAttenuation" \o D(i) \o ";" >>,
          << "  vec3 VP = lightLocalPosition" \o D(i)
                \o " - tPosition.xyz/tPosition.w;",
             "  float d = length(VP);",
             "  VP = normalize(VP);",
             "  float attenuation = 1.0 / (lightLocalAttenuation" \o D(i) \o ".x",
             "                               + lightLocalAttenuation" \o D(i)
                \o ".y * d",
             "                               + lightLocalAttenuation" \o D(i)
                \o ".z * d * d);",
             "  vec3 halfVector = normalize(VP + eyePosition.xyz / eyePosition.w);",
             "  float nDotVP = max(0.0, dot(tNormal, VP));",
             "  float nDotHV = max(0.0, dot(tNormal, halfVector));" >>)

\* switch (state.light[i])
LightSwitch(i, type) ==
    CASE type = "LIGHT_INFINITE" ->
           Block(FALSE,
                 << "uniform vec3 lightInfiniteHalfVector" \o D(i) \o ";",
                    "uniform vec3 lightInfiniteDirection" \o D(i) \o ";" >>,
                 << "  float attenuation = 1.0;",
                    "  float nDotVP = max(0.0, dot(tNormal, normalize(vec3(lightInfiniteDirection"
                       \o D(i) \o "))));",
                    "  float nDotHV = max(0.0, dot(tNormal, vec3(lightInfiniteHalfVector"
                       \o D(i) \o ")));" >>)
      [] type = "LIGHT_LOCAL" -> Block(FALSE, << >>, << >>)
      [] type = "LIGHT_SPOT" ->
           Block(FALSE, << >>,
                 << "  vec4 spotDir = lightSpotDirection(" \o D(i) \o ");",
                    "  float invScale = 1/length(spotDir.xyz);",
                    "  float cosHalfPhi = -invScale*spotDir.w;",
                    "  float cosHalfTheta = invScale + cosHalfPhi;",
                    "  float spotDirDotVP = dot(spotDir.xyz, VP);",
                    "  float rho = invScale*spotDirDotVP;",
                    "  if (rho > cosHalfTheta) {",
                    "  } else if (rho <= cosHalfPhi) {",
                    "    attenuation = 0.0;",
                    "  } else {",
                    "    attenuation *= spotDirDotVP + spotDir.w;",
                    "  }" >>)
      [] OTHER -> Block(TRUE, << >>, << >>)

\* one iteration of for (i = 0; i < NV2A_MAX_LIGHTS; i++)
LightBlock(i, type) ==
    IF type = "LIGHT_OFF" THEN Block(FALSE, << >>, << >>)
    ELSE LET loc == IF type \in {"LIGHT_LOCAL", "LIGHT_SPOT"}
                    THEN LightLocalPart(i) ELSE Block(FALSE, << >>, << >>)
             sw == LightSwitch(i, type)
         IN  Block(sw.fatal, loc.header \o sw.header,
                   << "/* Light " \o D(i) \o " */ {" >>
                   \o loc.body \o sw.body
                   \o << "  float pf;",
                         "  if (nDotVP == 0.0) {",
                         "    pf = 0.0;",
                         "  } else {",
                         "    pf = pow(nDotHV, /* specular(l, m, n, l1, m1, n1) */ 0.001);",
                         "  }",
                         "  vec3 lightAmbient = lightAmbientColor(" \o D(i)
                            \o ") * attenuation;",
                         "  vec3 lightDiffuse = lightDiffuseColor(" \o D(i)
                            \o ") * attenuation * nDotVP;",
                         "  vec3 lightSpecular = lightSpecularColor(" \o D(i)
                            \o ") * pf;",
                         "  oD0.xyz += lightAmbient;",
                         "  oD0.xyz += diffuse.xyz * lightDiffuse;",
                         "  oD1.xyz += specular.xyz * lightSpecular;",
                         "}" >>)

\* the ambient and emission part of the lighting block
LightingColors(state) ==
    (CASE state.ambient_src = "MATERIAL_COLOR_SRC_MATERIAL" ->
            << "oD0 = vec4(sceneAmbientColor, diffuse.a);" >>
       [] state.ambient_src = "MATERIAL_COLOR_SRC_DIFFUSE" ->
            << "oD0 = vec4(diffuse.rgb, diffuse.a);" >>
       [] state.ambient_src = "MATERIAL_COLOR_SRC_SPECULAR" ->
            << "oD0 = vec4(specular.rgb, diffuse.a);" >>
       [] OTHER -> << >>)
    \o << "oD0.rgb *= materialEmissionColor.rgb;" >>
    \o (CASE state.emission_src = "MATERIAL_COLOR_SRC_MATERIAL" ->
               << "oD0.rgb += sceneAmbientColor;" >>
          [] state.emission_src = "MATERIAL_COLOR_SRC_DIFFUSE" ->
               << "oD0.rgb += diffuse.rgb;" >>
          [] state.emission_src = "MATERIAL_COLOR_SRC_SPECULAR" ->
               << "oD0.rgb += specular.rgb;" >>
          [] OTHER -> << >>)
    \o << "oD1 = vec4(0.0, 0.0, 0.0, specular.a);" >>

\* faulty variant: the light loop runs from the last slot down to the first
LightingBlock_Descending(state) ==
    LET light(i) == LightBlock(NV2A_MAX_LIGHTS - 1 - i,
                               state.light[NV2A_MAX_LIGHTS - i])
        lit == Block(\E i \in 0..NV2A_MAX_LIGHTS - 1 : light(i).fatal,
                     Concat([i \in 1..NV2A_MAX_LIGHTS |-> light(i - 1).header]),
                     LightingColors(state)
                     \o Concat([i \in 1..NV2A_MAX_LIGHTS |-> light(i - 1).body]))
        unlit == Block(FALSE, << >>,
                       << "  oD0 = diffuse;", "  oD1 = specular;" >>)
        r == IF state.lighting THEN lit ELSE unlit
    IN  Block(r.fatal, r.header,
              r.body \o << "  oB0 = backDiffuse;", "  oB1 = backSpecular;" >>)

\* Lighting: state.light is indexed [i + 1]
LightingBlock(state) ==
    LET light(i) == LightBlock(i, state.light[i + 1])
        lit == Block(\E i \in 0..NV2A_MAX_LIGHTS - 1 : light(i).fatal,
                     Concat([i \in 1..NV2A_MAX_LIGHTS |-> light(i - 1).header]),
                     LightingColors(state)
                     \o Concat([i \in 1..NV2A_MAX_LIGHTS |-> light(i - 1).body]))
        unlit == Block(FALSE, << >>,
                       << "  oD0 = diffuse;", "  oD1 = specular;" >>)
        r == IF state.lighting THEN lit ELSE unlit
    IN  Block(r.fatal, r.header,
              r.body \o << "  oB0 = backDiffuse;", "  oB1 = backSpecular;" >>)

\* Fog: switch (state.foggen)
FogDistanceBlock(state) ==
    IF ~state.fog_enable THEN Block(FALSE, << >>, << >>)
    ELSE CASE state.foggen = "FOGGEN_SPEC_ALPHA" ->
                Block(FALSE, << >>,
                      << "  float fogDistance = clamp(specular.a, 0.0, 1.0);" >>)
           [] state.foggen = "FOGGEN_RADIAL" ->
                Block(FALSE, << >>,
                      << "  float fogDistance = length(tPosition.xyz);" >>)
           [] state.foggen \in {"FOGGEN_PLANAR", "FOGGEN_ABS_PLANAR"} ->
                Block(FALSE, << >>,
                      << "  float fogDistance = dot(fogPlane.xyz, tPosition.xyz) + fogPlane.w;" >>
                      \o (IF state.foggen = "FOGGEN_ABS_PLANAR"
                          THEN << "  fogDistance = abs(fogDistance);" >>
                          ELSE << >>))
           [] state.foggen = "FOGGEN_FOG_X" ->
                Block(FALSE, << >>, << "  float fogDistance = fogCoord;" >>)
           [] OTHER -> Block(TRUE, << >>, << >>)

\* If skinning is off the composite matrix already includes the MV matrix
FinalTransformBlock(state) ==
    Block(FALSE, << >>,
          (IF state.skinning = "SKINNING_OFF"
           THEN << "  tPosition = position;" >> ELSE << >>)
          \o << "   oPos = invViewport * (tPosition * compositeMat);",
                "   oPos.z = oPos.z * 2.0 - oPos.w;" >>)

\* the indices of state.point_params the attenuated branch reads, in order
PointParamsRead == << 0, 1, 2, 6, 3, 7 >>

\* faulty variant: the clamp is applied after the multiplication
PointSizeBlock_ClampLast(state) ==
    LET pp(n) == F(state.point_params[PointParamsRead[n] + 1])
    IN  Block(FALSE, << >>,
              IF state.point_params_enable
              THEN << "  float d_e = length(position * modelViewMat0);",
                      "  oPts.x = 1/sqrt(" \o pp(1) \o " + " \o pp(2)
                         \o "*d_e + " \o pp(3) \o "*d_e*d_e) + " \o pp(4) \o ";",
                      "  oPts.x = min((oPts.x*" \o pp(5) \o " + " \o pp(6)
                         \o ") * " \o D(state.surface_scale_factor) \o ", 64.0);" >>
              ELSE << "  oPts.x = " \o F(state.point_size) \o " * "
                      \o D(state.surface_scale_factor) \o ";" >>)

\* state.point_params is indexed [k + 1]
PointSizeBlock(state) ==
    LET pp(n) == F(state.point_params[PointParamsRead[n] + 1])
    IN  Block(FALSE, << >>,
              IF state.point_params_enable
              THEN << "  float d_e = length(position * modelViewMat0);",
                      "  oPts.x = 1/sqrt(" \o pp(1) \o " + " \o pp(2)
                         \o "*d_e + " \o pp(3) \o "*d_e*d_e) + " \o pp(4) \o ";",
                      "  oPts.x = min(oPts.x*" \o pp(5) \o " + " \o pp(6)
                         \o ", 64.0) * " \o D(state.surface_scale_factor) \o ";" >>
              ELSE << "  oPts.x = " \o F(state.point_size) \o " * "
                      \o D(state.surface_scale_factor) \o ";" >>)

InvWBlock == Block(FALSE, << >>, << "  vtx.inv_w = 1.0 / oPos.w;" >>)

\* the blocks of generate_fixed_function in the order they run
\* faulty variant: the final transform is emitted before the fog distance
FixedFunctionBlocks_EarlyFinalTransform(state) ==
    << Block(FALSE, FixedFunctionHeader, << >>),
       SkinningBlock(state),
       NormalizationBlock(state),
       TexgenBlock(state),
       TextureMatrixBlock(state),
       LightingBlock(state),
       FinalTransformBlock(state),
       FogDistanceBlock(state),
       PointSizeBlock(state),
       InvWBlock >>

FixedFunctionBlocks(state) ==
    << Block(FALSE, FixedFunctionHeader, << >>),
       SkinningBlock(state),
       NormalizationBlock(state),
       TexgenBlock(state),
       TextureMatrixBlock(state),
       LightingBlock(state),
       FogDistanceBlock(state),
       FinalTransformBlock(state),
       PointSizeBlock(state),
       InvWBlock >>

generate_fixed_function(state) ==
    LET bs == FixedFunctionBlocks(state)
    IN  Block(AnyFatal(bs),
              Concat([k \in 1..Len(bs) |-> bs[k].header]),
              Concat([k \in 1..Len(bs) |-> bs[k].body]))

(***************************************************************************)
(* generate_vertex_shader.                                                 *)
(***************************************************************************)
\* vsh_translate (external microcode translator): the text it appends
vsh_translate(state) ==
    Block(FALSE, << "/* vsh_translate: header */" >>,
          << "/* vsh_translate: body */" >>)

VertexHeader ==
    << "#version 400",
       "",
       "uniform vec2 clipRange;",
       "uniform vec2 surfaceSize;",
       "",
       "uniform vec4 c[NV2A_VERTEXSHADER_CONSTANTS];",
       "",
       "uniform vec4 fogColor;",
       "uniform float fogParam[2];",
       "",
       GLSL_DEFINE("fogPlane", GLSL_C("NV_IGRAPH_XF_XFCTX_FOG")),
       GLSL_DEFINE("texMat0", GLSL_C_MAT4("NV_IGRAPH_XF_XFCTX_T0MAT")),
       GLSL_DEFINE("texMat1", GLSL_C_MAT4("NV_IGRAPH_XF_XFCTX_T1MAT")),
       GLSL_DEFINE("texMat2", GLSL_C_MAT4("NV_IGRAPH_XF_XFCTX_T2MAT")),
       GLSL_DEFINE("texMat3", GLSL_C_MAT4("NV_IGRAPH_XF_XFCTX_T3MAT")),
       "",
       "vec4 oPos = vec4(0.0,0.0,0.0,1.0);",
       "vec4 oD0 = vec4(0.0,0.0,0.0,1.0);",
       "vec4 oD1 = vec4(0.0,0.0,0.0,1.0);",
       "vec4 oB0 = vec4(0.0,0.0,0.0,1.0);",
       "vec4 oB1 = vec4(0.0,0.0,0.0,1.0);",
       "vec4 oPts = vec4(0.0,0.0,0.0,1.0);",
       "vec4 oFog = vec4(1.0,0.0,0.0,1.0);",
       "vec4 oT0 = vec4(0.0,0.0,0.0,1.0);",
       "vec4 oT1 = vec4(0.0,0.0,0.0,1.0);",
       "vec4 oT2 = vec4(0.0,0.0,0.0,1.0);",
       "vec4 oT3 = vec4(0.0,0.0,0.0,1.0);",
       "",
       "vec4 decompress_11_11_10(int cmp) {",
       "    float x = float(bitfieldExtract(cmp, 0,  11)) / 1023.0;",
       "    float y = float(bitfieldExtract(cmp, 11, 11)) / 1023.0;",
       "    float z = float(bitfieldExtract(cmp, 22, 10)) / 511.0;",
       "    return vec4(x, y, z, 1);",
       "}" >>
    \o STRUCT_VERTEX_DATA

\* state.compressed_attrs & (1 << i): the mask is the set of its set bits
\* faulty variant: the mask is tested one bit too high
AttrCompressed_NextBit(state, i) == (i + 1) \in state.compressed_attrs

AttrCompressed(state, i) == i \in state.compressed_attrs

\* faulty variant: the block is named g_vtx whatever prefix is passed
VertexInterfaceBlock_FixedPrefix(state, vtx_prefix) ==
    Block(FALSE,
          << "noperspective out VertexData g_vtx;",
             "#define vtx g_vtx",
             "" >>
          \o [k \in 1..NV2A_VERTEXSHADER_ATTRIBUTES |->
                IF AttrCompressed(state, k - 1)
                THEN "layout(location = " \o D(k - 1) \o ") in int v"
                     \o D(k - 1) \o "_cmp;"
                ELSE "layout(location = " \o D(k - 1) \o ") in vec4 v"
                     \o D(k - 1) \o ";"]
          \o << "" >>,
          << "void main() {" >>
          \o Concat([k \in 1..NV2A_VERTEXSHADER_ATTRIBUTES |->
                IF AttrCompressed(state, k - 1)
                THEN << "vec4 v" \o D(k - 1) \o " = decompress_11_11_10(v"
                        \o D(k - 1) \o "_cmp);" >>
                ELSE << >>]))

\* the interface block and the attribute declarations
VertexInterfaceBlock(state, vtx_prefix) ==
    Block(FALSE,
          << "noperspective out VertexData " \o vtx_prefix \o "_vtx;",
             "#define vtx " \o vtx_prefix \o "_vtx",
             "" >>
          \o [k \in 1..NV2A_VERTEXSHADER_ATTRIBUTES |->
                IF AttrCompressed(state, k - 1)
                THEN "layout(location = " \o D(k - 1) \o ") in int v"
                     \o D(k - 1) \o "_cmp;"
                ELSE "layout(location = " \o D(k - 1) \o ") in vec4 v"
                     \o D(k - 1) \o ";"]
          \o << "" >>,
          << "void main() {" >>
          \o Concat([k \in 1..NV2A_VERTEXSHADER_ATTRIBUTES |->
                IF AttrCompressed(state, k - 1)
                THEN << "vec4 v" \o D(k - 1) \o " = decompress_11_11_10(v"
                        \o D(k - 1) \o "_cmp);" >>
                ELSE << >>]))

\* faulty variant: the vertex program is tried before the fixed function
VertexTranslatorBlock_ProgramFirst(state) ==
    IF state.vertex_program THEN vsh_translate(state)
    ELSE IF state.fixed_function THEN generate_fixed_function(state)
    ELSE Block(TRUE, << >>, << >>)

\* if (state.fixed_function) ... else if (state.vertex_program) ... else assert
VertexTranslatorBlock(state) ==
    IF state.fixed_function THEN generate_fixed_function(state)
    ELSE IF state.vertex_program THEN vsh_translate(state)
    ELSE Block(TRUE, << >>, << >>)

IsinfGuard ==
    << "  if (isinf(fogDistance)) {",
       "    fogDistance = 0.0;",
       "  }" >>

\* switch (state.fog_mode): the fog factor
FogFactorSwitch(fog_mode) ==
    CASE fog_mode \in {"FOG_MODE_LINEAR", "FOG_MODE_LINEAR_ABS"} ->
           Block(FALSE, << >>,
                 IsinfGuard
                 \o << "  float fogFactor = fogParam[0] + fogDistance * fogParam[1];",
                       "  fogFactor -= 1.0;" >>)
      [] fog_mode \in {"FOG_MODE_EXP", "FOG_MODE_EXP_ABS"} ->
           Block(FALSE, << >>,
                 (IF fog_mode = "FOG_MODE_EXP" THEN IsinfGuard ELSE << >>)
                 \o << "  float fogFactor = fogParam[0] + exp2(fogDistance * fogParam[1] * 16.0);",
                       "  fogFactor -= 1.5;" >>)
      [] fog_mode \in {"FOG_MODE_EXP2", "FOG_MODE_EXP2_ABS"} ->
           Block(FALSE, << >>,
                 << "  float fogFactor = fogParam[0] + exp2(-fogDistance * fogDistance * fogParam[1] * fogParam[1] * 32.0);",
                    "  fogFactor -= 1.5;" >>)
      [] OTHER -> Block(TRUE, << >>, << >>)

\* faulty variant: the exp2-abs case is missing from the second switch
FogAbsSwitch_Exp2Missing(fog_mode) ==
    IF fog_mode \in {"FOG_MODE_LINEAR_ABS", "FOG_MODE_EXP_ABS"}
    THEN << "  fogFactor = abs(fogFactor);" >>
    ELSE << >>

\* switch (state.fog_mode): Calculate absolute for the modes which need it
FogAbsSwitch(fog_mode) ==
    IF fog_mode \in {"FOG_MODE_LINEAR_ABS", "FOG_MODE_EXP_ABS",
                     "FOG_MODE_EXP2_ABS"}
    THEN << "  fogFactor = abs(fogFactor);" >>
    ELSE << >>

\* faulty variant: fogDistance is declared from oFog.x on both paths
FogFactorBlock_AlwaysDeclare(state) ==
    IF state.fog_enable
    THEN LET f == FogFactorSwitch(state.fog_mode)
         IN  Block(f.fatal, << >>,
                   << "  float fogDistance = oFog.x;" >>
                   \o f.body
                   \o FogAbsSwitch(state.fog_mode)
                   \o << "  oFog.xyzw = vec4(fogFactor);" >>)
    ELSE Block(FALSE, << >>, << "  oFog.xyzw = vec4(1.0);" >>)

\* Fog
FogFactorBlock(state) ==
    IF state.fog_enable
    THEN LET f == FogFactorSwitch(state.fog_mode)
         IN  Block(f.fatal, << >>,
                   (IF state.vertex_program
                    THEN << "  float fogDistance = oFog.x;" >> ELSE << >>)
                   \o f.body
                   \o FogAbsSwitch(state.fog_mode)
                   \o << "  oFog.xyzw = vec4(fogFactor);" >>)
    ELSE Block(FALSE, << >>, << "  oFog.xyzw = vec4(1.0);" >>)

\* Set outputs
OutputsBlock ==
    Block(FALSE, << >>,
          << "",
             "  vtx.D0 = clamp(oD0, 0.0, 1.0) * vtx.inv_w;",
             "  vtx.D1 = clamp(oD1, 0.0, 1.0) * vtx.inv_w;",
             "  vtx.B0 = clamp(oB0, 0.0, 1.0) * vtx.inv_w;",
             "  vtx.B1 = clamp(oB1, 0.0, 1.0) * vtx.inv_w;",
             "  vtx.Fog = oFog.x * vtx.inv_w;",
             "  vtx.T0 = oT0 * vtx.inv_w;",
             "  vtx.T1 = oT1 * vtx.inv_w;",
             "  vtx.T2 = oT2 * vtx.inv_w;",
             "  vtx.T3 = oT3 * vtx.inv_w;",
             "  gl_Position = oPos;",
             "  gl_PointSize = oPts.x;",
             "",
             "}" >>)

VertexShaderBlocks(state, vtx_prefix) ==
    << Block(FALSE, VertexHeader, << >>),
       VertexInterfaceBlock(state, vtx_prefix),
       VertexTranslatorBlock(state),
       FogFactorBlock(state),
       OutputsBlock >>

\* [fatal, code]: code is the combined header + body
generate_vertex_shader(state, vtx_prefix) ==
    LET bs == VertexShaderBlocks(state, vtx_prefix)
    IN  [fatal |-> AnyFatal(bs),
         code |-> Concat([k \in 1..Len(bs) |-> bs[k].header])
                  \o Concat([k \in 1..Len(bs) |-> bs[k].body])]

(***************************************************************************)
(* The ShaderState values the model calls generate_shaders with.           *)
(***************************************************************************)
\* a fixed-function state with every optional stage off
BaseState ==
    [polygon_front_mode |-> "POLY_MODE_FILL",
     polygon_back_mode |-> "POLY_MODE_FILL",
     primitive_mode |-> "PRIM_TYPE_TRIANGLES",
     fixed_function |-> TRUE,
     vertex_program |-> FALSE,
     skinning |-> "SKINNING_OFF",
     normalization |-> FALSE,
     texgen |-> [i \in 1..4 |-> [j \in 1..4 |-> "TEXGEN_DISABLE"]],
     texture_matrix_enable |-> [i \in 1..4 |-> FALSE],
     lighting |-> FALSE,
     ambient_src |-> "MATERIAL_COLOR_SRC_MATERIAL",
     emission_src |-> "MATERIAL_COLOR_SRC_MATERIAL",
     light |-> [i \in 1..8 |-> "LIGHT_OFF"],
     fog_enable |-> FALSE,
     foggen |-> "FOGGEN_SPEC_ALPHA",
     fog_mode |-> "FOG_MODE_LINEAR",
     point_params_enable |-> FALSE,
     point_params |-> [k \in 1..8 |-> k],
     point_size |-> 1,
     surface_scale_factor |-> 1,
     compressed_attrs |-> {}]

\* the vertex-pipeline configurations
VertexVariants ==
    { BaseState,
      [BaseState EXCEPT !.fixed_function = FALSE, !.vertex_program = TRUE,
                        !.fog_enable = TRUE],
      [BaseState EXCEPT !.fixed_function = FALSE],
      [BaseState EXCEPT !.skinning = "SKINNING_2WEIGHTS",
                        !.normalization = TRUE,
                        !.texgen[1][1] = "TEXGEN_SPHERE_MAP",
                        !.texgen[2][3] = "TEXGEN_NORMAL_MAP",
                        !.texture_matrix_enable[1] = TRUE,
                        !.lighting = TRUE,
                        !.light[1] = "LIGHT_INFINITE",
                        !.light[2] = "LIGHT_LOCAL",
                        !.light[4] = "LIGHT_SPOT",
                        !.fog_enable = TRUE,
                        !.foggen = "FOGGEN_ABS_PLANAR",
                        !.fog_mode = "FOG_MODE_EXP_ABS",
                        !.point_params_enable = TRUE,
                        !.surface_scale_factor = 2,
                        !.compressed_attrs = {2}],
      [BaseState EXCEPT !.skinning = "SKINNING_2WEIGHTS2MATRICES"] }

ShaderStates ==
    { [v EXCEPT !.polygon_front_mode = f, !.polygon_back_mode = b,
                !.primitive_mode = p] :
        v \in VertexVariants, f \in AnyPolygonMode, b \in AnyPolygonMode,
        p \in AnyPrimitiveMode }

\* an enumeration and one value outside it
AnySkinningMode == SkinningModes \cup {"SKINNING_INVALID"}

AnyTexgenMode == TexgenModes \cup {"TEXGEN_INVALID"}

AnyFoggenMode == FoggenModes \cup {"FOGGEN_INVALID"}

AnyFogMode == FogModes \cup {"FOG_MODE_INVALID"}

AnyLightType == LightTypes \cup {"LIGHT_INVALID"}

\* compressed_attrs masks, as the sets of their bits: none, all, and some
CompressedMasks ==
    (SUBSET {0, 7, NV2A_VERTEXSHADER_ATTRIBUTES - 1})
    \cup { 0..NV2A_VERTEXSHADER_ATTRIBUTES - 1 }

\* every light slot in use, the three types in turn, slots 3 and 6 off
AllLights ==
    << "LIGHT_INFINITE", "LIGHT_LOCAL", "LIGHT_OFF", "LIGHT_SPOT",
       "LIGHT_INFINITE", "LIGHT_OFF", "LIGHT_LOCAL", "LIGHT_SPOT" >>

\* the vertex configuration with most stages on, under a skinning mode
RichState(skinning) ==
    [BaseState EXCEPT !.skinning = skinning,
                      !.normalization = TRUE,
                      !.texgen[1][1] = "TEXGEN_SPHERE_MAP",
                      !.texgen[2][3] = "TEXGEN_NORMAL_MAP",
                      !.texgen[3][2] = "TEXGEN_EYE_LINEAR",
                      !.texture_matrix_enable[1] = TRUE,
                      !.lighting = TRUE,
                      !.light[1] = "LIGHT_INFINITE",
                      !.light[2] = "LIGHT_LOCAL",
                      !.light[4] = "LIGHT_SPOT",
                      !.fog_enable = TRUE,
                      !.foggen = "FOGGEN_RADIAL",
                      !.fog_mode = "FOG_MODE_EXP2",
                      !.point_params_enable = TRUE,
                      !.surface_scale_factor = 2,
                      !.compressed_attrs = {2}]

\* the ShaderState values generate_vertex_shader is applied to on its own
VertexStates ==
    { [BaseState EXCEPT !.fixed_function = ff, !.vertex_program = vp,
                        !.fog_enable = fe, !.fog_mode = fm] :
        ff \in BOOLEAN, vp \in BOOLEAN, fe \in BOOLEAN, fm \in AnyFogMode }
    \cup { [BaseState EXCEPT !.fixed_function = ff, !.vertex_program = ~ff,
                             !.fog_enable = fe, !.foggen = g] :
             ff \in BOOLEAN, fe \in BOOLEAN, g \in AnyFoggenMode }
    \cup { [BaseState EXCEPT !.skinning = m, !.normalization = n] :
             m \in AnySkinningMode, n \in BOOLEAN }
    \cup { [BaseState EXCEPT !.texgen[i][j] = m] :
             i \in {1, 3}, j \in 1..4, m \in AnyTexgenMode }
    \cup { RichState(m) :
             m \in {"SKINNING_OFF", "SKINNING_1WEIGHTS", "SKINNING_3WEIGHTS"} }
    \cup { [BaseState EXCEPT !.fixed_function = ff, !.vertex_program = ~ff,
                             !.compressed_attrs = m] :
             ff \in BOOLEAN, m \in CompressedMasks }
    \cup { [BaseState EXCEPT !.lighting = l, !.light[i] = t] :
             l \in BOOLEAN, i \in {1, NV2A_MAX_LIGHTS}, t \in AnyLightType }
    \cup { [BaseState EXCEPT !.lighting = TRUE, !.light = AllLights,
                             !.ambient_src = a, !.emission_src = e] :
             a \in MaterialColorSources, e \in MaterialColorSources }
    \cup { [BaseState EXCEPT !.point_params_enable = e, !.point_size = p,
                             !.surface_scale_factor = f] :
             e \in BOOLEAN, p \in {1, 3}, f \in {1, 2, 4} }

\* the ShaderState values of the repeated calls
RepeatedStates ==
    { BaseState,
      [BaseState EXCEPT !.primitive_mode = "PRIM_TYPE_QUADS"],
      [RichState("SKINNING_2WEIGHTS") EXCEPT
           !.polygon_front_mode = "POLY_MODE_LINE",
           !.polygon_back_mode = "POLY_MODE_LINE"],
      [BaseState EXCEPT !.fixed_function = FALSE, !.vertex_program = TRUE,
                        !.fog_enable = TRUE,
                        !.primitive_mode = "PRIM_TYPE_POLYGON"] }

(***************************************************************************)
(* The host graphics driver.                                               *)
(***************************************************************************)
\* which uniforms are active after linking: all, none, or every other one
DriverProfiles == {"all", "none", "some"}

\* psh_translate (external register-combiner translator): the fragment text
psh_translate(state) == << "/* psh_translate */" >>

Stages == {"geometry", "vertex", "fragment"}

(***************************************************************************)
(* State of one call of generate_shaders and of the draw that follows.     *)
(***************************************************************************)
VARIABLES
    state,              \* the ShaderState argument
    pc,                 \* position in generate_shaders
    gl_primitive_mode,  \* the local written through the out parameter
    vtx_prefix,         \* the local vtx_prefix
    source,             \* stage -> the text handed to create_gl_shader
    gl_calls,           \* the calls made into the host graphics context
    stderr,             \* what was written to stderr
    driver,             \* the driver's profile of the linked program
    sampler_unit,       \* sampler index -> texture unit written (-1: none)
    binding,            \* << >> or << the returned ShaderBinding >>
    prim_id,            \* gl_PrimitiveIDIn of the next input primitive
    emitted,            \* per input primitive, the geometry stage's events
    weight,             \* the weight attribute of the vertex that was run
    skinned,            \* what the vertex text's skinning statements applied
    history             \* the results of the earlier calls of this process

vars == << state, pc, gl_primitive_mode, vtx_prefix, source, gl_calls, stderr,
           driver, sampler_unit, binding, prim_id, emitted, weight, skinned,
           history >>

Init ==
    /\ state \in ShaderStates
    /\ pc = "start"
    /\ gl_primitive_mode = UNINIT
    /\ vtx_prefix = UNINIT
    /\ source = [st \in Stages |-> << >>]
    /\ gl_calls = << >>
    /\ stderr = << >>
    /\ driver = UNINIT
    /\ sampler_unit = [i \in 0..NV2A_MAX_TEXTURES - 1 |-> -1]
    /\ binding = << >>
    /\ prim_id = 0
    /\ emitted = << >>
    /\ weight = << >>
    /\ skinned = << >>
    /\ history = << >>

\* GLuint program = glCreateProgram()
CreateProgram ==
    /\ pc = "start"
    /\ gl_calls' = Append(gl_calls, "glCreateProgram")
    /\ pc' = "geometry"
    /\ UNCHANGED << state, weight, skinned, history, gl_primitive_mode, vtx_prefix, source, stderr, driver,
                    sampler_unit, binding, prim_id, emitted >>

\* the call of generate_geometry_shader and the branch on its result
GenerateGeometry ==
    /\ pc = "geometry"
    /\ LET r == generate_geometry_shader(state.polygon_front_mode,
                                         state.polygon_back_mode,
                                         state.primitive_mode,
                                         gl_primitive_mode)
       IN  /\ gl_primitive_mode' = r.gl_primitive_mode
           /\ IF r.fatal
              THEN /\ pc' = "aborted"
                   /\ stderr' = Append(stderr, [kind |-> "assert",
                                                name |-> "generate_geometry_shader",
                                                code |-> << >>, log |-> FALSE])
                   /\ UNCHANGED << source, vtx_prefix >>
              ELSE IF r.has_code
              THEN /\ pc' = "compile_geometry"
                   /\ source' = [source EXCEPT !["geometry"] = r.code]
                   /\ UNCHANGED << stderr, vtx_prefix >>
              ELSE /\ pc' = "vertex"
                   /\ vtx_prefix' = "g"
                   /\ UNCHANGED << source, stderr >>
    /\ UNCHANGED << state, weight, skinned, history, gl_calls, driver, sampler_unit, binding, prim_id,
                    emitted >>

(***************************************************************************)
(* create_gl_shader(type, code, name), the driver answering compiled.      *)
(* Returns the calls made, what is written to stderr and whether abort()   *)
(* is reached.                                                             *)
(***************************************************************************)
create_gl_shader(stage, code, compiled) ==
    [calls |-> << "glCreateShader:" \o stage, "glShaderSource:" \o stage,
                  "glCompileShader:" \o stage >>,
     stderr |-> IF compiled THEN << >>
                ELSE << [kind |-> "compile", name |-> stage \o " shader",
                         code |-> code, log |-> TRUE] >>,
     abort |-> ~compiled]

\* create_gl_shader for one stage, then glAttachShader; next is the pc after it
CompileAndAttach(stage, code, compiled, next) ==
    LET r == create_gl_shader(stage, code, compiled)
    IN  /\ stderr' = stderr \o r.stderr
        /\ IF r.abort
           THEN /\ gl_calls' = gl_calls \o r.calls
                /\ pc' = "aborted"
           ELSE /\ gl_calls' = gl_calls \o r.calls
                                \o << "glAttachShader:" \o stage >>
                /\ pc' = next

\* if (geometry_shader_code) { create_gl_shader; glAttachShader; vtx_prefix = 'v' }
CompileGeometry ==
    /\ pc = "compile_geometry"
    /\ \E compiled \in BOOLEAN :
          /\ CompileAndAttach("geometry", source["geometry"], compiled, "vertex")
          /\ vtx_prefix' = IF compiled THEN "v" ELSE vtx_prefix
    /\ UNCHANGED << state, weight, skinned, history, gl_primitive_mode, source, driver, sampler_unit,
                    binding, prim_id, emitted >>

\* faulty variant: the text is appended to a buffer that outlives the call
GenerateVertex_StaticBuffer ==
    /\ pc = "vertex"
    /\ LET r == generate_vertex_shader(state, vtx_prefix)
           kept == IF history = << >> THEN << >>
                   ELSE history[Len(history)].source["vertex"]
       IN  IF r.fatal
           THEN /\ pc' = "aborted"
                /\ stderr' = Append(stderr, [kind |-> "assert",
                                             name |-> "generate_vertex_shader",
                                             code |-> << >>, log |-> FALSE])
                /\ UNCHANGED source
           ELSE /\ pc' = "compile_vertex"
                /\ source' = [source EXCEPT !["vertex"] = kept \o r.code]
                /\ UNCHANGED stderr
    /\ UNCHANGED << state, weight, skinned, history, gl_primitive_mode,
                    vtx_prefix, gl_calls, driver, sampler_unit, binding,
                    prim_id, emitted >>

\* MString *vertex_shader_code = generate_vertex_shader(state, vtx_prefix)
GenerateVertex ==
    /\ pc = "vertex"
    /\ LET r == generate_vertex_shader(state, vtx_prefix)
       IN  IF r.fatal
           THEN /\ pc' = "aborted"
                /\ stderr' = Append(stderr, [kind |-> "assert",
                                             name |-> "generate_vertex_shader",
                                             code |-> << >>, log |-> FALSE])
                /\ UNCHANGED source
           ELSE /\ pc' = "compile_vertex"
                /\ source' = [source EXCEPT !["vertex"] = r.code]
                /\ UNCHANGED stderr
    /\ UNCHANGED << state, weight, skinned, history, gl_primitive_mode, vtx_prefix, gl_calls, driver,
                    sampler_unit, binding, prim_id, emitted >>

\* create_gl_shader(GL_VERTEX_SHADER, ...); glAttachShader
CompileVertex ==
    /\ pc = "compile_vertex"
    /\ \E compiled \in BOOLEAN :
          CompileAndAttach("vertex", source["vertex"], compiled, "fragment")
    /\ UNCHANGED << state, weight, skinned, history, gl_primitive_mode, vtx_prefix, source, driver,
                    sampler_unit, binding, prim_id, emitted >>

\* psh_translate(state.psh); create_gl_shader(GL_FRAGMENT_SHADER, ...); attach
CompileFragment ==
    /\ pc = "fragment"
    /\ source' = [source EXCEPT !["fragment"] = psh_translate(state)]
    /\ \E compiled \in BOOLEAN :
          CompileAndAttach("fragment", psh_translate(state), compiled, "link")
    /\ UNCHANGED << state, weight, skinned, history, gl_primitive_mode, vtx_prefix, driver, sampler_unit,
                    binding, prim_id, emitted >>

\* glLinkProgram; if (!linked) { fprintf; abort(); }  glUseProgram(program)
LinkProgram ==
    /\ pc = "link"
    /\ \E linked \in BOOLEAN, d \in DriverProfiles :
          IF linked
          THEN /\ gl_calls' = gl_calls \o << "glLinkProgram", "glUseProgram" >>
               /\ driver' = d
               /\ pc' = "samplers"
               /\ UNCHANGED stderr
          ELSE /\ gl_calls' = Append(gl_calls, "glLinkProgram")
               /\ stderr' = Append(stderr, [kind |-> "link", name |-> "program",
                                            code |-> << >>, log |-> TRUE])
               /\ pc' = "aborted"
               /\ UNCHANGED driver
    /\ UNCHANGED << state, weight, skinned, history, gl_primitive_mode, vtx_prefix, source, sampler_unit,
                    binding, prim_id, emitted >>

(***************************************************************************)
(* glGetUniformLocation under a driver profile: the location of an active  *)
(* uniform (at least 0), or the sentinel -1.  A uniform is named by its    *)
(* group and its index in the group.                                       *)
(***************************************************************************)
UniformGroups ==
    << "texSamp", "psh_constant", "alphaRef", "bumpMat", "bumpScale",
       "bumpOffset", "texScale", "c", "surfaceSize", "clipRange", "fogColor",
       "fogParam", "invViewport", "ltctxa", "ltctxb", "ltc1",
       "lightInfiniteHalfVector", "lightInfiniteDirection",
       "lightLocalPosition", "lightLocalAttenuation", "clipRegion" >>

GroupNumber(group) ==
    CHOOSE g \in 1..Len(UniformGroups) : UniformGroups[g] = group

UniformActive(d, group, index) ==
    CASE d = "all" -> TRUE
      [] d = "none" -> FALSE
      [] d = "some" -> (GroupNumber(group) + index) % 2 = 0

glGetUniformLocation(d, group, index) ==
    IF UniformActive(d, group, index)
    THEN GroupNumber(group) * 256 + index
    ELSE -1

\* faulty variant: the unit is written whatever the lookup returned
SamplerUnit_Unconditional(d, i) == i

\* set texture samplers: the unit written to sampler i, -1 when none is
SamplerUnit(d, i) ==
    IF glGetUniformLocation(d, "texSamp", i) >= 0 THEN i ELSE -1

SetSamplers ==
    /\ pc = "samplers"
    /\ sampler_unit' = [i \in 0..NV2A_MAX_TEXTURES - 1 |-> SamplerUnit(driver, i)]
    /\ gl_calls' = gl_calls
                   \o Concat([k \in 1..NV2A_MAX_TEXTURES |->
                         IF SamplerUnit(driver, k - 1) >= 0
                         THEN << "glUniform1i:texSamp" \o D(k - 1) >>
                         ELSE << >>])
    /\ pc' = "validate"
    /\ UNCHANGED << state, weight, skinned, history, gl_primitive_mode, vtx_prefix, source, stderr, driver,
                    binding, prim_id, emitted >>

\* glValidateProgram; if (!valid) { fprintf; abort(); }
ValidateProgram ==
    /\ pc = "validate"
    /\ gl_calls' = Append(gl_calls, "glValidateProgram")
    /\ \E valid \in BOOLEAN :
          IF valid
          THEN /\ pc' = "uniforms"
               /\ UNCHANGED stderr
          ELSE /\ stderr' = Append(stderr, [kind |-> "validate",
                                            name |-> "program",
                                            code |-> << >>, log |-> TRUE])
               /\ pc' = "aborted"
    /\ UNCHANGED << state, weight, skinned, history, gl_primitive_mode, vtx_prefix, source, driver,
                    sampler_unit, binding, prim_id, emitted >>

(***************************************************************************)
(* The ShaderBinding: g_malloc0 (every field 0), then the assignments.     *)
(***************************************************************************)
NV2A_VERTEXSHADER_CONSTANTS == 192

NV2A_LTCTXA_COUNT == 26

NV2A_LTCTXB_COUNT == 52

NV2A_LTC1_COUNT == 20

\* the table of a group of n uniforms looked up for the indices first..n-1;
\* the entries below first keep the 0 of g_malloc0
LocTable(d, group, first, n) ==
    [i \in 0..n - 1 |->
        IF i >= first THEN glGetUniformLocation(d, group, i) ELSE 0]

ShaderBinding(d, mode) ==
    [gl_program |-> "program",
     gl_primitive_mode |-> mode,
     psh_constant_loc |->
         [i \in 0..8 |-> [j \in 0..1 |->
             glGetUniformLocation(d, "psh_constant", i * 2 + j)]],
     alpha_ref_loc |-> glGetUniformLocation(d, "alphaRef", 0),
     bump_mat_loc |-> LocTable(d, "bumpMat", 1, NV2A_MAX_TEXTURES),
     bump_scale_loc |-> LocTable(d, "bumpScale", 1, NV2A_MAX_TEXTURES),
     bump_offset_loc |-> LocTable(d, "bumpOffset", 1, NV2A_MAX_TEXTURES),
     tex_scale_loc |-> LocTable(d, "texScale", 0, NV2A_MAX_TEXTURES),
     vsh_constant_loc |-> LocTable(d, "c", 0, NV2A_VERTEXSHADER_CONSTANTS),
     surface_size_loc |-> glGetUniformLocation(d, "surfaceSize", 0),
     clip_range_loc |-> glGetUniformLocation(d, "clipRange", 0),
     fog_color_loc |-> glGetUniformLocation(d, "fogColor", 0),
     fog_param_loc |-> LocTable(d, "fogParam", 0, 2),
     inv_viewport_loc |-> glGetUniformLocation(d, "invViewport", 0),
     ltctxa_loc |-> LocTable(d, "ltctxa", 0, NV2A_LTCTXA_COUNT),
     ltctxb_loc |-> LocTable(d, "ltctxb", 0, NV2A_LTCTXB_COUNT),
     ltc1_loc |-> LocTable(d, "ltc1", 0, NV2A_LTC1_COUNT),
     light_infinite_half_vector_loc |->
         LocTable(d, "lightInfiniteHalfVector", 0, NV2A_MAX_LIGHTS),
     light_infinite_direction_loc |->
         LocTable(d, "lightInfiniteDirection", 0, NV2A_MAX_LIGHTS),
     light_local_position_loc |->
         LocTable(d, "lightLocalPosition", 0, NV2A_MAX_LIGHTS),
     light_local_attenuation_loc |->
         LocTable(d, "lightLocalAttenuation", 0, NV2A_MAX_LIGHTS),
     clip_region_loc |-> LocTable(d, "clipRegion", 0, 8)]

\* ShaderBinding* ret = g_malloc0(...); the lookups; return ret
LookupUniforms ==
    /\ pc = "uniforms"
    /\ binding' = << ShaderBinding(driver, gl_primitive_mode) >>
    /\ pc' = "returned"
    /\ UNCHANGED << state, weight, skinned, history, gl_primitive_mode, vtx_prefix, source, gl_calls,
                    stderr, driver, sampler_unit, prim_id, emitted >>

(***************************************************************************)
(* A draw with the returned program: when a geometry stage is attached it  *)
(* runs once per input primitive, with gl_PrimitiveIDIn = 0, 1, 2, ...     *)
(***************************************************************************)
GeometryAttached ==
    \E k \in 1..Len(gl_calls) : gl_calls[k] = "glAttachShader:geometry"

DrawPrimitive ==
    /\ pc = "returned"
    /\ GeometryAttached
    /\ prim_id < MaxPrimitives
    /\ emitted' = Append(emitted, RunGeometryShader(source["geometry"], prim_id))
    /\ prim_id' = prim_id + 1
    /\ UNCHANGED << state, weight, skinned, history, pc, gl_primitive_mode, vtx_prefix, source, gl_calls,
                    stderr, driver, sampler_unit, binding >>

Next ==
    \/ CreateProgram
    \/ GenerateGeometry
    \/ CompileGeometry
    \/ GenerateVertex
    \/ CompileVertex
    \/ CompileFragment
    \/ LinkProgram
    \/ SetSamplers
    \/ ValidateProgram
    \/ LookupUniforms
    \/ DrawPrimitive

Spec == Init /\ [][Next]_vars

(***************************************************************************)
(* One vertex run through the skinning statements of the vertex text.      *)
(* The statements are the ones append_skinning_code can print; each has    *)
(* its GLSL meaning on weight_i, weight_n and the output it adds to.       *)
(***************************************************************************)
MaxWeight == 1

\* the weight attribute (x, y, z, w) of a vertex
WeightVectors == [1..4 -> 0..MaxWeight]

\* the two outputs skinning computes, as generate_fixed_function names them
SkinTargets ==
    { [type |-> "vec4", output |-> "tPosition", input |-> "position",
       matrix |-> "modelViewMat", swizzle |-> "xyzw"],
      [type |-> "vec3", output |-> "tNormal", input |-> "vec4(normal, 0.0)",
       matrix |-> "invModelViewMat", swizzle |-> "xyz"] }

SkinStatements ==
    { [text |-> "  float weight_n = 1.0;", op |-> "one", output |-> "", k |-> 0],
      [text |-> "  weight_n -= weight_i;", op |-> "sub", output |-> "", k |-> 0],
      [text |-> "  weight_i = weight_n;", op |-> "rest", output |-> "", k |-> 0] }
    \cup { [text |-> "  weight_i = weight." \o Swz(c) \o ";",
            op |-> "load", output |-> "", k |-> c] : c \in 0..3 }
    \cup { [text |-> t.type \o " " \o t.output \o " = " \o t.type \o "(0.0);",
            op |-> "zero", output |-> t.output, k |-> 0] : t \in SkinTargets }
    \cup { [text |-> t.type \o " " \o t.output \o " = (" \o t.input \o " * "
                     \o t.matrix \o D(k) \o ")." \o t.swizzle \o ";",
            op |-> "product", output |-> t.output, k |-> k] :
             t \in SkinTargets, k \in 0..3 }
    \cup { [text |-> "  " \o t.output \o " += (" \o t.input \o " * "
                     \o t.matrix \o D(k) \o ")." \o t.swizzle \o " * weight_i;",
            op |-> "add", output |-> t.output, k |-> k] :
             t \in SkinTargets, k \in 0..3 }

\* the statement a line of text is; every other line leaves skinning alone
SkinStmt(line) ==
    IF \E r \in SkinStatements : r.text = line
    THEN CHOOSE r \in SkinStatements : r.text = line
    ELSE [text |-> line, op |-> "other", output |-> "", k |-> 0]

\* one applied term: matrix k, and the factor it is multiplied by (if any)
Term(k, weighted, w) == [matrix |-> k, weighted |-> weighted, w |-> w]

SkinStep(st, w, env) ==
    CASE st.op = "one" -> [env EXCEPT !.weight_n = 1]
      [] st.op = "sub" -> [env EXCEPT !.weight_n = env.weight_n - env.weight_i]
      [] st.op = "rest" -> [env EXCEPT !.weight_i = env.weight_n]
      [] st.op = "load" -> [env EXCEPT !.weight_i = w[st.k + 1]]
      [] st.op = "zero" -> [env EXCEPT !.applied[st.output] = << >>]
      [] st.op = "product" ->
             [env EXCEPT !.applied[st.output] = << Term(st.k, FALSE, 1) >>]
      [] st.op = "add" ->
             [env EXCEPT !.applied[st.output] =
                             Append(@, Term(st.k, TRUE, env.weight_i))]
      [] OTHER -> env

RECURSIVE SkinExec(_, _, _, _)
SkinExec(lines, i, w, env) ==
    IF i > Len(lines) THEN env
    ELSE SkinExec(lines, i + 1, w, SkinStep(SkinStmt(lines[i]), w, env))

\* the terms the text adds up into tPosition and into tNormal
RunSkinning(code, w) ==
    SkinExec(SelectSeq(code, LAMBDA l : SkinStmt(l).op # "other"), 1, w,
             [weight_i |-> 0, weight_n |-> 0,
              applied |-> [o \in {"tPosition", "tNormal"} |-> << >>]]).applied

\* the vertex stage run on one vertex
RunVertexShader ==
    /\ source["vertex"] # << >>
    /\ skinned = << >>
    /\ \E w \in WeightVectors :
          /\ weight' = w
          /\ skinned' = << RunSkinning(source["vertex"], w) >>
    /\ UNCHANGED << state, pc, gl_primitive_mode, vtx_prefix, source, gl_calls,
                    stderr, driver, sampler_unit, binding, prim_id, emitted,
                    history >>

(***************************************************************************)
(* generate_vertex_shader applied on its own to every vertex               *)
(* configuration, under both prefixes, and the text run on a vertex.       *)
(***************************************************************************)
VertexInit ==
    /\ state \in VertexStates
    /\ pc = "vertex"
    /\ gl_primitive_mode = UNINIT
    /\ vtx_prefix \in {"v", "g"}
    /\ source = [st \in Stages |-> << >>]
    /\ gl_calls = << >>
    /\ stderr = << >>
    /\ driver = UNINIT
    /\ sampler_unit = [i \in 0..NV2A_MAX_TEXTURES - 1 |-> -1]
    /\ binding = << >>
    /\ prim_id = 0
    /\ emitted = << >>
    /\ weight = << >>
    /\ skinned = << >>
    /\ history = << >>

VertexNext ==
    \/ GenerateVertex
    \/ RunVertexShader

VertexSpec == VertexInit /\ [][VertexNext]_vars

(***************************************************************************)
(* Several calls of generate_shaders in one process: a call that returned  *)
(* is followed by another one, whose locals are fresh.                     *)
(***************************************************************************)
MaxCalls == 3

CallAgain ==
    /\ pc = "returned"
    /\ Len(history) + 1 < MaxCalls
    /\ history' = Append(history, [state |-> state,
                                   gl_primitive_mode |-> gl_primitive_mode,
                                   source |-> source])
    /\ state' \in RepeatedStates
    /\ pc' = "start"
    /\ gl_primitive_mode' = UNINIT
    /\ vtx_prefix' = UNINIT
    /\ source' = [st \in Stages |-> << >>]
    /\ gl_calls' = << >>
    /\ stderr' = << >>
    /\ driver' = UNINIT
    /\ sampler_unit' = [i \in 0..NV2A_MAX_TEXTURES - 1 |-> -1]
    /\ binding' = << >>
    /\ prim_id' = 0
    /\ emitted' = << >>
    /\ UNCHANGED << weight, skinned >>

RepeatedInit ==
    /\ state \in RepeatedStates
    /\ pc = "start"
    /\ gl_primitive_mode = UNINIT
    /\ vtx_prefix = UNINIT
    /\ source = [st \in Stages |-> << >>]
    /\ gl_calls = << >>
    /\ stderr = << >>
    /\ driver = UNINIT
    /\ sampler_unit = [i \in 0..NV2A_MAX_TEXTURES - 1 |-> -1]
    /\ binding = << >>
    /\ prim_id = 0
    /\ emitted = << >>
    /\ weight = << >>
    /\ skinned = << >>
    /\ history = << >>

RepeatedNext ==
    \/ CreateProgram
    \/ GenerateGeometry
    \/ CompileGeometry
    \/ GenerateVertex
    \/ CompileVertex
    \/ CompileFragment
    \/ LinkProgram
    \/ SetSamplers
    \/ ValidateProgram
    \/ LookupUniforms
    \/ DrawPrimitive
    \/ CallAgain

RepeatedSpec == RepeatedInit /\ [][RepeatedNext]_vars

(***************************************************************************)
(* Vocabulary of the properties.                                           *)
(***************************************************************************)
FrontEqBack == state.polygon_front_mode = state.polygon_back_mode

\* generate_geometry_shader has been called
PastGeometry == pc \notin {"start", "geometry"}

\* the process aborted on an assert of generate_geometry_shader
GeometryAssertFailed ==
    /\ pc = "aborted"
    /\ \E k \in 1..Len(stderr) :
          stderr[k].kind = "assert" /\ stderr[k].name = "generate_geometry_shader"

\* create_gl_shader was entered for the stage
CompileStarted(stage) ==
    \E k \in 1..Len(gl_calls) : gl_calls[k] = "glCreateShader:" \o stage

\* a geometry-stage program text was generated
GeometryGenerated == source["geometry"] # << >>

HasLine(code, line) == \E k \in 1..Len(code) : code[k] = line

\* the state is a call with polygon mode m on both faces and primitive p
IsCase(m, p) ==
    /\ state.polygon_front_mode = m
    /\ state.polygon_back_mode = m
    /\ state.primitive_mode = p

\* the vertex events of one primitive's output
Vertices(events) == SelectSeq(events, LAMBDA e : e # EndEvent)

Count(events, e) == Len(SelectSeq(events, LAMBDA x : x = e))

\* the output is a non-empty run of vertices closed by exactly one EndPrimitive
OnePrimitive(events) ==
    /\ Len(events) >= 2
    /\ events[Len(events)] = EndEvent
    /\ Count(events, EndEvent) = 1

(***************************************************************************)
(* C1: for every primitive topology, when the front polygon mode differs   *)
(* from the back polygon mode, generate_geometry_shader fails its          *)
(* precondition assert: the process aborts there, no host topology has     *)
(* been chosen, no stage is compiled and no ShaderBinding is returned.     *)
(***************************************************************************)
C1_FrontBackMismatchFatal ==
    (~FrontEqBack /\ PastGeometry) =>
        /\ GeometryAssertFailed
        /\ gl_primitive_mode = UNINIT
        /\ \A st \in Stages : ~CompileStarted(st) /\ source[st] = << >>
        /\ binding = << >>

C1_Witness ==
    /\ state.polygon_front_mode = "POLY_MODE_FILL"
    /\ state.polygon_back_mode = "POLY_MODE_LINE"
    /\ state.primitive_mode = "PRIM_TYPE_QUADS"
    /\ pc = "aborted"

(***************************************************************************)
(* C2: with front == back, no geometry-stage program is produced and the   *)
(* host topology is: points for polygon mode point with any primitive;     *)
(* the same topology for points, lines, line-loop and line-strip under     *)
(* fill or wireframe; the same native topology for triangles,              *)
(* triangle-strip and triangle-fan under fill; triangle-fan for polygon    *)
(* under fill and line-loop for polygon under wireframe.                   *)
(***************************************************************************)
\* the table of the claim: << polygon mode, primitive, host topology >>
C2_Table ==
    { << "POLY_MODE_POINT", p, "GL_POINTS" >> : p \in AnyPrimitiveMode }
    \cup { << m, pt[1], pt[2] >> :
             m \in {"POLY_MODE_FILL", "POLY_MODE_LINE"},
             pt \in { << "PRIM_TYPE_POINTS", "GL_POINTS" >>,
                      << "PRIM_TYPE_LINES", "GL_LINES" >>,
                      << "PRIM_TYPE_LINE_LOOP", "GL_LINE_LOOP" >>,
                      << "PRIM_TYPE_LINE_STRIP", "GL_LINE_STRIP" >> } }
    \cup { << "POLY_MODE_FILL", "PRIM_TYPE_TRIANGLES", "GL_TRIANGLES" >>,
           << "POLY_MODE_FILL", "PRIM_TYPE_TRIANGLE_STRIP", "GL_TRIANGLE_STRIP" >>,
           << "POLY_MODE_FILL", "PRIM_TYPE_TRIANGLE_FAN", "GL_TRIANGLE_FAN" >>,
           << "POLY_MODE_FILL", "PRIM_TYPE_POLYGON", "GL_TRIANGLE_FAN" >>,
           << "POLY_MODE_LINE", "PRIM_TYPE_POLYGON", "GL_LINE_LOOP" >> }

C2_NoGeometryStageCases ==
    \A row \in C2_Table :
        (IsCase(row[1], row[2]) /\ PastGeometry) =>
            /\ ~GeometryAssertFailed
            /\ ~GeometryGenerated
            /\ ~CompileStarted("geometry")
            /\ vtx_prefix = "g"
            /\ gl_primitive_mode = row[3]

C2_Witness ==
    /\ IsCase("POLY_MODE_LINE", "PRIM_TYPE_POLYGON")
    /\ pc = "returned"
    /\ binding[1].gl_primitive_mode = "GL_LINE_LOOP"

(***************************************************************************)
(* C3 (as stated): whenever a geometry-stage program is generated, the     *)
(* host topology is triangles for wireframe triangles, triangle-strip and  *)
(* triangle-fan, and line-adjacency for quads and quad-strip.              *)
(***************************************************************************)
C3_AsStated ==
    (PastGeometry /\ GeometryGenerated) =>
        /\ state.primitive_mode \in
              {"PRIM_TYPE_TRIANGLES", "PRIM_TYPE_TRIANGLE_STRIP",
               "PRIM_TYPE_TRIANGLE_FAN"} => gl_primitive_mode = "GL_TRIANGLES"
        /\ state.primitive_mode \in {"PRIM_TYPE_QUADS", "PRIM_TYPE_QUAD_STRIP"}
              => gl_primitive_mode \in {"GL_LINES_ADJACENCY",
                                        "GL_LINE_STRIP_ADJACENCY"}

(***************************************************************************)
(* C3 (amended): whenever a geometry-stage program is generated, its input *)
(* layout is triangles for wireframe triangles, triangle-strip and         *)
(* triangle-fan and lines_adjacency for quads and quad-strip, while the    *)
(* host topology keeps the strip or fan assembly of the primitive:         *)
(* triangles -> GL_TRIANGLES, triangle-strip -> GL_TRIANGLE_STRIP,         *)
(* triangle-fan -> GL_TRIANGLE_FAN, quads -> GL_LINES_ADJACENCY,           *)
(* quad-strip -> GL_LINE_STRIP_ADJACENCY.  A program is generated exactly  *)
(* in these cases.                                                         *)
(***************************************************************************)
C3_Table ==
    { << "POLY_MODE_LINE", "PRIM_TYPE_TRIANGLES", "GL_TRIANGLES",
         "layout(triangles) in;" >>,
      << "POLY_MODE_LINE", "PRIM_TYPE_TRIANGLE_STRIP", "GL_TRIANGLE_STRIP",
         "layout(triangles) in;" >>,
      << "POLY_MODE_LINE", "PRIM_TYPE_TRIANGLE_FAN", "GL_TRIANGLE_FAN",
         "layout(triangles) in;" >>,
      << "POLY_MODE_LINE", "PRIM_TYPE_QUADS", "GL_LINES_ADJACENCY",
         "layout(lines_adjacency) in;" >>,
      << "POLY_MODE_FILL", "PRIM_TYPE_QUADS", "GL_LINES_ADJACENCY",
         "layout(lines_adjacency) in;" >>,
      << "POLY_MODE_LINE", "PRIM_TYPE_QUAD_STRIP", "GL_LINE_STRIP_ADJACENCY",
         "layout(lines_adjacency) in;" >>,
      << "POLY_MODE_FILL", "PRIM_TYPE_QUAD_STRIP", "GL_LINE_STRIP_ADJACENCY",
         "layout(lines_adjacency) in;" >> }

C3_HostTopologyOfGeometryStage ==
    PastGeometry =>
        /\ GeometryGenerated <=>
              \E row \in C3_Table : IsCase(row[1], row[2])
        /\ \A row \in C3_Table :
              IsCase(row[1], row[2]) =>
                 /\ gl_primitive_mode = row[3]
                 /\ HasLine(source["geometry"], row[4])

C3_Witness ==
    /\ IsCase("POLY_MODE_LINE", "PRIM_TYPE_TRIANGLE_STRIP")
    /\ pc = "returned"
    /\ binding[1].gl_primitive_mode = "GL_TRIANGLE_STRIP"
    /\ GeometryAttached

(***************************************************************************)
(* C4: for primitive triangles with polygon mode wireframe the geometry    *)
(* stage is a line strip with triangle input and emits, for every input    *)
(* primitive whatever its primitive ID, exactly the four vertices 0,1,2,0  *)
(* followed by exactly one EndPrimitive.                                   *)
(***************************************************************************)
C4_TrianglesWireframe ==
    (IsCase("POLY_MODE_LINE", "PRIM_TYPE_TRIANGLES") /\ PastGeometry) =>
        /\ HasLine(source["geometry"], "layout(triangles) in;")
        /\ HasLine(source["geometry"],
                   "layout(line_strip, max_vertices = 4) out;")
        /\ \A k \in 1..Len(emitted) :
              emitted[k] = << "v0", "v1", "v2", "v0", "End" >>

C4_Witness ==
    /\ IsCase("POLY_MODE_LINE", "PRIM_TYPE_TRIANGLES")
    /\ Len(emitted) >= 3
    /\ emitted[3] = << "v0", "v1", "v2", "v0", "End" >>

(***************************************************************************)
(* C5: for primitive quads the host topology is line-adjacency and the     *)
(* geometry stage emits for every input primitive, in fill mode, a         *)
(* triangle strip of the 4 vertices 0,1,3,2 and, in wireframe mode, a line *)
(* strip of the 5 vertices 0,1,2,3,0 (closed: its last vertex is its       *)
(* first), each followed by one EndPrimitive.                              *)
(***************************************************************************)
C5_Quads ==
    /\ (IsCase("POLY_MODE_FILL", "PRIM_TYPE_QUADS") /\ PastGeometry) =>
          /\ gl_primitive_mode = "GL_LINES_ADJACENCY"
          /\ HasLine(source["geometry"], "layout(lines_adjacency) in;")
          /\ HasLine(source["geometry"],
                     "layout(triangle_strip, max_vertices = 4) out;")
          /\ \A k \in 1..Len(emitted) :
                emitted[k] = << "v0", "v1", "v3", "v2", "End" >>
    /\ (IsCase("POLY_MODE_LINE", "PRIM_TYPE_QUADS") /\ PastGeometry) =>
          /\ gl_primitive_mode = "GL_LINES_ADJACENCY"
          /\ HasLine(source["geometry"], "layout(lines_adjacency) in;")
          /\ HasLine(source["geometry"],
                     "layout(line_strip, max_vertices = 5) out;")
          /\ \A k \in 1..Len(emitted) :
                emitted[k] = << "v0", "v1", "v2", "v3", "v0", "End" >>

C5_Witness ==
    /\ IsCase("POLY_MODE_FILL", "PRIM_TYPE_QUADS")
    /\ Len(emitted) >= 2
    /\ emitted[2] = << "v0", "v1", "v3", "v2", "End" >>

(***************************************************************************)
(* C6: for primitive quad-strip, in fill and in wireframe mode, the        *)
(* geometry stage emits nothing (no vertex, no EndPrimitive) for an input  *)
(* primitive with an odd primitive ID and exactly one primitive for an     *)
(* input primitive with an even primitive ID.                              *)
(***************************************************************************)
C6_QuadStripOddSkipped ==
    \A m \in {"POLY_MODE_FILL", "POLY_MODE_LINE"} :
        (IsCase(m, "PRIM_TYPE_QUAD_STRIP") /\ PastGeometry) =>
            /\ GeometryGenerated
            /\ \A k \in 1..Len(emitted) :
                  IF (k - 1) % 2 = 1
                  THEN emitted[k] = << >>
                  ELSE OnePrimitive(emitted[k])

C6_Witness ==
    /\ IsCase("POLY_MODE_FILL", "PRIM_TYPE_QUAD_STRIP")
    /\ Len(emitted) >= 4
    /\ emitted[2] = << >>
    /\ emitted[4] = << >>
    /\ emitted[3] # << >>

(***************************************************************************)
(* C7 (as stated): for primitive quad-strip, in fill mode as well as in    *)
(* wireframe mode, the primitive with ID 0 emits one extra leading vertex  *)
(* compared with the other even-ID primitives of the strip.                *)
(***************************************************************************)
C7_AsStated ==
    \A m \in {"POLY_MODE_FILL", "POLY_MODE_LINE"} :
        (IsCase(m, "PRIM_TYPE_QUAD_STRIP") /\ PastGeometry) =>
            \A k \in 2..Len(emitted) :
                (k - 1) % 2 = 0 =>
                    Vertices(emitted[1])
                       = << Vertices(emitted[1])[1] >> \o Vertices(emitted[k])

(***************************************************************************)
(* C7 (amended): for primitive quad-strip in wireframe mode the primitive  *)
(* with ID 0 emits one extra leading vertex, vertex 0, before the vertices *)
(* 1,3,2,0 that every even-ID primitive emits; in fill mode there is no    *)
(* extra vertex: the primitive with ID 0 emits the same four vertices      *)
(* 0,1,2,3 as every other even-ID primitive.                               *)
(***************************************************************************)
C7_QuadStripLeadingVertex ==
    /\ (IsCase("POLY_MODE_LINE", "PRIM_TYPE_QUAD_STRIP") /\ PastGeometry) =>
          \A k \in 1..Len(emitted) :
              (k - 1) % 2 = 0 =>
                  Vertices(emitted[k]) =
                      (IF k = 1 THEN << "v0" >> ELSE << >>)
                      \o << "v1", "v3", "v2", "v0" >>
    /\ (IsCase("POLY_MODE_FILL", "PRIM_TYPE_QUAD_STRIP") /\ PastGeometry) =>
          \A k \in 1..Len(emitted) :
              (k - 1) % 2 = 0 =>
                  Vertices(emitted[k]) = << "v0", "v1", "v2", "v3" >>

C7_Witness ==
    /\ IsCase("POLY_MODE_LINE", "PRIM_TYPE_QUAD_STRIP")
    /\ Len(emitted) >= 3
    /\ Len(Vertices(emitted[1])) = Len(Vertices(emitted[3])) + 1

(***************************************************************************)
(* C8 (as stated): for primitive triangle-strip with polygon mode          *)
(* wireframe the geometry stage emits a 4-vertex line per input primitive, *)
(* in the order 1,2,0 for an even and 2,1,0 for an odd primitive ID, only  *)
(* the primitive with ID 0 emitting its leading vertex 0 first; every      *)
(* primitive ends with one EndPrimitive.                                   *)
(***************************************************************************)
C8_AsStated ==
    (IsCase("POLY_MODE_LINE", "PRIM_TYPE_TRIANGLE_STRIP") /\ PastGeometry) =>
        \A k \in 1..Len(emitted) :
            /\ Len(Vertices(emitted[k])) = 4
            /\ SubSeq(Vertices(emitted[k]), 2, 4) =
                  (IF (k - 1) % 2 = 0 THEN << "v1", "v2", "v0" >>
                                      ELSE << "v2", "v1", "v0" >>)
            /\ (Vertices(emitted[k])[1] = "v0") = (k = 1)
            /\ OnePrimitive(emitted[k])

(***************************************************************************)
(* C8 (amended): for primitive triangle-strip with polygon mode wireframe  *)
(* the geometry stage emits a line strip of 3 vertices per input           *)
(* primitive, in the order 1,2,0 for an even and 2,1,0 for an odd          *)
(* primitive ID; only the primitive with ID 0 additionally emits its       *)
(* leading vertex 0 first and so is the only one with 4 vertices; every    *)
(* primitive ends with one EndPrimitive.                                   *)
(***************************************************************************)
C8_TriangleStripWireframe ==
    (IsCase("POLY_MODE_LINE", "PRIM_TYPE_TRIANGLE_STRIP") /\ PastGeometry) =>
        /\ HasLine(source["geometry"],
                   "layout(line_strip, max_vertices = 4) out;")
        /\ \A k \in 1..Len(emitted) :
              /\ OnePrimitive(emitted[k])
              /\ Vertices(emitted[k]) =
                    (IF k = 1 THEN << "v0" >> ELSE << >>)
                    \o (IF (k - 1) % 2 = 0 THEN << "v1", "v2", "v0" >>
                                           ELSE << "v2", "v1", "v0" >>)

C8_Witness ==
    /\ IsCase("POLY_MODE_LINE", "PRIM_TYPE_TRIANGLE_STRIP")
    /\ Len(emitted) >= 3
    /\ emitted[1] = << "v0", "v1", "v2", "v0", "End" >>
    /\ emitted[2] = << "v2", "v1", "v0", "End" >>
    /\ emitted[3] = << "v1", "v2", "v0", "End" >>

(***************************************************************************)
(* C9 (as stated): for primitive triangle-fan with polygon mode wireframe, *)
(* over all primitives of a draw the shared vertex 0 is emitted only once, *)
(* by the primitive with ID 0; primitives with ID > 0 do not emit vertex 0.*)
(***************************************************************************)
C9_AsStated ==
    (IsCase("POLY_MODE_LINE", "PRIM_TYPE_TRIANGLE_FAN") /\ PastGeometry) =>
        \A k \in 1..Len(emitted) :
            Count(emitted[k], "v0") = (IF k = 1 THEN 1 ELSE 0)

(***************************************************************************)
(* C9 (amended): for primitive triangle-fan with polygon mode wireframe    *)
(* only the primitive with ID 0 emits the shared vertex 0 as a leading     *)
(* vertex; every primitive, also one with ID > 0, emits 1, 2 and then      *)
(* vertex 0 as its closing vertex, so vertex 0 is emitted twice by the     *)
(* primitive with ID 0 and exactly once by every other primitive.          *)
(***************************************************************************)
C9_TriangleFanWireframe ==
    (IsCase("POLY_MODE_LINE", "PRIM_TYPE_TRIANGLE_FAN") /\ PastGeometry) =>
        \A k \in 1..Len(emitted) :
            /\ OnePrimitive(emitted[k])
            /\ Vertices(emitted[k]) =
                  (IF k = 1 THEN << "v0" >> ELSE << >>)
                  \o << "v1", "v2", "v0" >>
            /\ Count(emitted[k], "v0") = (IF k = 1 THEN 2 ELSE 1)

C9_Witness ==
    /\ IsCase("POLY_MODE_LINE", "PRIM_TYPE_TRIANGLE_FAN")
    /\ Len(emitted) >= 2
    /\ emitted[1] = << "v0", "v1", "v2", "v0", "End" >>
    /\ emitted[2] = << "v1", "v2", "v0", "End" >>

(***************************************************************************)
(* C10: the mapping is exhaustive.  With front == back, none of the 30     *)
(* pairs of a polygon mode among point, wireframe, fill with a primitive   *)
(* among the 10 primitive types fails an assert of                         *)
(* generate_geometry_shader; a primitive outside the 10 under fill or      *)
(* wireframe, and a polygon mode outside the 3 with a triangle, quad or    *)
(* polygon primitive, is fatal: the process aborts in                      *)
(* generate_geometry_shader and no host topology is returned.              *)
(***************************************************************************)
C10_FatalPairs ==
    { << m, "PRIM_TYPE_INVALID" >> : m \in {"POLY_MODE_FILL", "POLY_MODE_LINE"} }
    \cup { << "POLY_MODE_INVALID", p >> :
             p \in {"PRIM_TYPE_TRIANGLES", "PRIM_TYPE_TRIANGLE_STRIP",
                    "PRIM_TYPE_TRIANGLE_FAN", "PRIM_TYPE_QUADS",
                    "PRIM_TYPE_QUAD_STRIP", "PRIM_TYPE_POLYGON"} }

C10_Exhaustive ==
    PastGeometry =>
        /\ \A m \in PolygonModes, p \in PrimitiveModes :
              IsCase(m, p) =>
                 /\ ~GeometryAssertFailed
                 /\ gl_primitive_mode # UNINIT
        /\ \A pair \in C10_FatalPairs :
              IsCase(pair[1], pair[2]) =>
                 /\ GeometryAssertFailed
                 /\ binding = << >>
                 /\ \A st \in Stages : ~CompileStarted(st)

C10_Witness ==
    /\ IsCase("POLY_MODE_INVALID", "PRIM_TYPE_QUAD_STRIP")
    /\ GeometryAssertFailed

(***************************************************************************)
(* C11: determinism.  Whenever a call of generate_shaders runs the         *)
(* generators on a ShaderState equal to the one of an earlier call of the  *)
(* same process, it chooses the same host topology and produces the same   *)
(* geometry text and the same vertex text, line for line, whatever calls   *)
(* were made in between; and any two earlier calls with equal states       *)
(* agree in the same way.                                                  *)
(***************************************************************************)
VertexGenerated == source["vertex"] # << >>

TableListedPair ==
    /\ FrontEqBack
    /\ state.polygon_front_mode \in PolygonModes
    /\ state.primitive_mode \in PrimitiveModes
    /\ ~generate_geometry_shader(state.polygon_front_mode,
                                 state.polygon_back_mode,
                                 state.primitive_mode, UNINIT).fatal

\* the texgen mode is a declared one on a component where it is allowed
TexgenAllowed(j, mode) ==
    /\ mode \in TexgenModes
    /\ mode = "TEXGEN_SPHERE_MAP" => j < 2
    /\ mode \in {"TEXGEN_REFLECTION_MAP", "TEXGEN_NORMAL_MAP"} => j < 3

\* every enumeration of the state holds a declared variant
EnumsDeclared ==
    /\ state.skinning \in SkinningModes
    /\ \A i \in 1..NV2A_MAX_TEXTURES, j \in 1..4 :
          TexgenAllowed(j - 1, state.texgen[i][j])
    /\ \A i \in 1..NV2A_MAX_LIGHTS : state.light[i] \in LightTypes
    /\ state.ambient_src \in MaterialColorSources
    /\ state.emission_src \in MaterialColorSources
    /\ state.foggen \in FoggenModes
    /\ state.fog_mode \in FogModes

InContractFixedFunction ==
    /\ TableListedPair
    /\ state.fixed_function
    /\ EnumsDeclared

\* generate_vertex_shader reached an assert that fails
VertexAssertFailed ==
    /\ pc = "aborted"
    /\ \E k \in 1..Len(stderr) :
          stderr[k].kind = "assert" /\ stderr[k].name = "generate_vertex_shader"

\* generate_vertex_shader was called
VertexCalled == VertexGenerated \/ VertexAssertFailed

(***************************************************************************)
(* C12: text generation is total on in-contract states.  For every         *)
(* fixed-function ShaderState with front = back, a table-listed pair and   *)
(* every enumeration holding a declared variant (texgen on a component     *)
(* where the mode is allowed), generate_vertex_shader returns the vertex   *)
(* text and reaches no assert that fails.                                  *)
(***************************************************************************)
C12_TotalOnContract ==
    (InContractFixedFunction /\ VertexCalled) =>
        /\ ~VertexAssertFailed
        /\ VertexGenerated

\* an in-contract state with an independent-weights skinning mode aborted
C12_Witness ==
    /\ InContractFixedFunction
    /\ state.skinning = "SKINNING_2WEIGHTS2MATRICES"
    /\ VertexAssertFailed

(***************************************************************************)
(* C13: skinning unity-sum.  In the vertex text of a fixed-function state  *)
(* with a unity-sum skinning mode of N bones (N = 2, 3, 4), tPosition and  *)
(* tNormal are each the sum of N terms: bone i's matrix times weight       *)
(* component i for i < N-1, and bone N-1's matrix times 1 minus the sum of  *)
(* the first N-1 weight components, so the N factors add up to 1.  With    *)
(* skinning off each is the single product with matrix 0, unweighted.      *)
(***************************************************************************)
\* the number of bones of a unity-sum mode, 0 for every other mode
UnitySumBones(skinning) ==
    CASE skinning = "SKINNING_1WEIGHTS" -> 2
      [] skinning = "SKINNING_2WEIGHTS" -> 3
      [] skinning = "SKINNING_3WEIGHTS" -> 4
      [] OTHER -> 0

RECURSIVE SumWeights(_, _)
\* the first n components of a weight vector added up
SumWeights(w, n) == IF n = 0 THEN 0 ELSE w[n] + SumWeights(w, n - 1)

RECURSIVE SumFactors(_)
SumFactors(terms) ==
    IF terms = << >> THEN 0 ELSE Head(terms).w + SumFactors(Tail(terms))

UnitySumApplied(terms, w, n) ==
    /\ Len(terms) = n
    /\ \A i \in 0..n - 2 : terms[i + 1] = Term(i, TRUE, w[i + 1])
    /\ terms[n] = Term(n - 1, TRUE, 1 - SumWeights(w, n - 1))
    /\ SumFactors(terms) = 1

C13_SkinningUnitySum ==
    (state.fixed_function /\ skinned # << >>) =>
        \A o \in {"tPosition", "tNormal"} :
           /\ UnitySumBones(state.skinning) > 0 =>
                 UnitySumApplied(skinned[1][o], weight,
                                 UnitySumBones(state.skinning))
           /\ state.skinning = "SKINNING_OFF" =>
                 skinned[1][o] = << Term(0, FALSE, 1) >>

\* four bones with weights 1, 0, 1: the last bone is applied with 1 - 2
C13_Witness ==
    /\ state.fixed_function
    /\ state.skinning = "SKINNING_3WEIGHTS"
    /\ skinned # << >>
    /\ weight = << 1, 0, 1, 0 >>
    /\ skinned[1]["tNormal"][4] = Term(3, TRUE, -1)

(***************************************************************************)
(* C14: fog formula selection.  When fog is enabled, the vertex text       *)
(* subtracts the bias 1.0 exactly for the modes linear and linear-abs and  *)
(* the bias 1.5 exactly for exp, exp-abs, exp2 and exp2-abs, once, and it  *)
(* contains the statement taking the absolute value of the fog factor if   *)
(* and only if the mode is linear-abs, exp-abs or exp2-abs; with a fog     *)
(* mode outside the six, generate_vertex_shader fails an assert.           *)
(***************************************************************************)
LinearFogModes == {"FOG_MODE_LINEAR", "FOG_MODE_LINEAR_ABS"}

ExponentialFogModes ==
    {"FOG_MODE_EXP", "FOG_MODE_EXP_ABS", "FOG_MODE_EXP2", "FOG_MODE_EXP2_ABS"}

AbsFogModes == {"FOG_MODE_LINEAR_ABS", "FOG_MODE_EXP_ABS", "FOG_MODE_EXP2_ABS"}

BiasLine(bias) == "  fogFactor -= " \o bias \o ";"

AbsLine == "  fogFactor = abs(fogFactor);"

C14_FogFormulaSelection ==
    /\ (state.fog_enable /\ VertexGenerated) =>
          LET code == source["vertex"]
          IN  /\ state.fog_mode \in LinearFogModes \cup ExponentialFogModes
              /\ Count(code, BiasLine("1.0"))
                    = IF state.fog_mode \in LinearFogModes THEN 1 ELSE 0
              /\ Count(code, BiasLine("1.5"))
                    = IF state.fog_mode \in ExponentialFogModes THEN 1 ELSE 0
              /\ HasLine(code, AbsLine) <=> state.fog_mode \in AbsFogModes
    /\ (state.fog_enable /\ VertexCalled
          /\ state.fog_mode \notin LinearFogModes \cup ExponentialFogModes) =>
          VertexAssertFailed

C14_Witness ==
    /\ state.fog_enable
    /\ state.fog_mode = "FOG_MODE_EXP2_ABS"
    /\ VertexGenerated
    /\ HasLine(source["vertex"], BiasLine("1.5"))
    /\ HasLine(source["vertex"], AbsLine)

(***************************************************************************)
(* C15: uniform table totality.  In the ShaderBinding generate_shaders     *)
(* returns, every location entry, the bump matrix, bump scale and bump     *)
(* offset entries of the texture stages 0..3 included, is what the driver  *)
(* answers for the entry's uniform name: its location, or the sentinel -1  *)
(* when the uniform is not present.                                        *)
(***************************************************************************)
Returned == binding # << >>

\* every entry i of the table holds the driver's answer for uniform i of group
TableLookedUp(table, group) ==
    \A i \in DOMAIN table : table[i] = glGetUniformLocation(driver, group, i)

C15_UniformTableTotality ==
    Returned =>
        LET b == binding[1]
        IN  /\ \A i \in 0..8, j \in 0..1 :
                  b.psh_constant_loc[i][j]
                     = glGetUniformLocation(driver, "psh_constant", i * 2 + j)
            /\ b.alpha_ref_loc = glGetUniformLocation(driver, "alphaRef", 0)
            /\ TableLookedUp(b.bump_mat_loc, "bumpMat")
            /\ TableLookedUp(b.bump_scale_loc, "bumpScale")
            /\ TableLookedUp(b.bump_offset_loc, "bumpOffset")
            /\ TableLookedUp(b.tex_scale_loc, "texScale")
            /\ TableLookedUp(b.vsh_constant_loc, "c")
            /\ b.surface_size_loc = glGetUniformLocation(driver, "surfaceSize", 0)
            /\ b.clip_range_loc = glGetUniformLocation(driver, "clipRange", 0)
            /\ b.fog_color_loc = glGetUniformLocation(driver, "fogColor", 0)
            /\ TableLookedUp(b.fog_param_loc, "fogParam")
            /\ b.inv_viewport_loc = glGetUniformLocation(driver, "invViewport", 0)
            /\ TableLookedUp(b.ltctxa_loc, "ltctxa")
            /\ TableLookedUp(b.ltctxb_loc, "ltctxb")
            /\ TableLookedUp(b.ltc1_loc, "ltc1")
            /\ TableLookedUp(b.light_infinite_half_vector_loc,
                             "lightInfiniteHalfVector")
            /\ TableLookedUp(b.light_infinite_direction_loc,
                             "lightInfiniteDirection")
            /\ TableLookedUp(b.light_local_position_loc, "lightLocalPosition")
            /\ TableLookedUp(b.light_local_attenuation_loc,
                             "lightLocalAttenuation")
            /\ TableLookedUp(b.clip_region_loc, "clipRegion")

\* no uniform is present, yet the stage 0 bump entries are 0 and not -1
C15_Witness ==
    /\ Returned
    /\ driver = "none"
    /\ binding[1].bump_mat_loc[0] = 0
    /\ binding[1].bump_scale_loc[0] = 0
    /\ binding[1].bump_offset_loc[0] = 0
    /\ binding[1].bump_mat_loc[1] = -1

(***************************************************************************)
(* C16: a compile failure of the geometry, vertex or fragment stage and a  *)
(* link failure are each fatal: the process aborts, no ShaderBinding is    *)
(* returned, no later step runs (the failed stage is not attached, the     *)
(* program is not linked after a compile failure, not made current and     *)
(* not looked up after a link failure), and the stderr output of the       *)
(* failure holds both the full generated source and the driver's log.      *)
(***************************************************************************)
Called(call) == \E k \in 1..Len(gl_calls) : gl_calls[k] = call

\* the stderr entries of a kind
Logged(kind) == SelectSeq(stderr, LAMBDA e : e.kind = kind)

CompileFailed(stage) ==
    \E k \in 1..Len(stderr) :
       stderr[k].kind = "compile" /\ stderr[k].name = stage \o " shader"

LinkFailed == Logged("link") # << >>

\* every text that was handed to the driver before the link
LinkedSources ==
    Concat([k \in 1..3 |-> source[<< "geometry", "vertex", "fragment" >>[k]]])

C16_CompileAndLinkFailureFatal ==
    /\ \A stage \in Stages :
          CompileFailed(stage) =>
             /\ pc = "aborted"
             /\ binding = << >>
             /\ ~Called("glAttachShader:" \o stage)
             /\ ~Called("glLinkProgram")
             /\ stderr[Len(stderr)].code = source[stage]
             /\ source[stage] # << >>
             /\ stderr[Len(stderr)].log
    /\ LinkFailed =>
          /\ pc = "aborted"
          /\ binding = << >>
          /\ ~Called("glUseProgram")
          /\ ~Called("glValidateProgram")
          /\ stderr[Len(stderr)].code = LinkedSources
          /\ stderr[Len(stderr)].log

\* the link failed and what was logged holds the driver's log only
C16_Witness ==
    /\ LinkFailed
    /\ pc = "aborted"
    /\ Len(stderr) = 1
    /\ stderr[1].log
    /\ stderr[1].code = << >>
    /\ source["vertex"] # << >>

(***************************************************************************)
(* C17: two error kinds only.  Whenever generate_shaders aborts, it does   *)
(* so on a precondition violation of the geometry generator (front and     *)
(* back polygon mode differ, or the pair of polygon mode and primitive is  *)
(* unsupported) or on a compile or link failure; and for an in-contract    *)
(* state whose stages all compiled and whose program linked, it does not   *)
(* abort: it goes on to return a ShaderBinding.                            *)
(***************************************************************************)
ExactlyOneTranslator == state.fixed_function # state.vertex_program

InContract ==
    /\ TableListedPair
    /\ ExactlyOneTranslator
    /\ EnumsDeclared

Aborted == pc = "aborted"

Linked == Called("glUseProgram")

C17_TwoErrorKindsOnly ==
    /\ Aborted =>
          \/ GeometryAssertFailed
          \/ \E stage \in Stages : CompileFailed(stage)
          \/ LinkFailed
    /\ (InContract /\ Linked) => ~Aborted

\* an in-contract state compiled and linked, and the process still aborted
C17_Witness ==
    /\ InContract
    /\ Linked
    /\ Aborted
    /\ Logged("validate") # << >>

(***************************************************************************)
(* C18: one vertex translator.  The vertex text holds the output of        *)
(* generate_fixed_function exactly when fixed_function is set and the      *)
(* output of the external microcode translator exactly when                *)
(* fixed_function is clear and vertex_program is set; with neither flag    *)
(* set generate_vertex_shader fails an assert.  For a state with exactly   *)
(* one flag set and fog enabled, fogDistance is declared once, by the      *)
(* fixed-function fog stage when fixed_function is set and by the          *)
(* vertex-program path otherwise; with fog disabled it is not declared.    *)
(***************************************************************************)
\* the first line generate_fixed_function appends to the header
FixedFunctionMark == "#define position      v0"

\* the text of the external translator
ProgramMark == vsh_translate(state).body[1]

\* the declarations of fogDistance the fixed-function fog stage can print
FixedFunctionFogDeclarations ==
    { "  float fogDistance = clamp(specular.a, 0.0, 1.0);",
      "  float fogDistance = length(tPosition.xyz);",
      "  float fogDistance = dot(fogPlane.xyz, tPosition.xyz) + fogPlane.w;",
      "  float fogDistance = fogCoord;" }

\* the declaration of the vertex-program path
ProgramFogDeclarations == { "  float fogDistance = oFog.x;" }

CountIn(code, lines) == Len(SelectSeq(code, LAMBDA l : l \in lines))

TranslatorSelection ==
    /\ VertexGenerated =>
          /\ HasLine(source["vertex"], FixedFunctionMark) <=> state.fixed_function
          /\ HasLine(source["vertex"], ProgramMark)
                <=> (~state.fixed_function /\ state.vertex_program)
    /\ (VertexCalled /\ ~state.fixed_function /\ ~state.vertex_program) =>
          VertexAssertFailed

C18_OneVertexTranslator ==
    /\ TranslatorSelection
    /\ (VertexGenerated /\ ExactlyOneTranslator) =>
          /\ CountIn(source["vertex"], FixedFunctionFogDeclarations)
                = IF state.fixed_function /\ state.fog_enable THEN 1 ELSE 0
          /\ CountIn(source["vertex"], ProgramFogDeclarations)
                = IF state.vertex_program /\ state.fog_enable THEN 1 ELSE 0

\* the claim as stated: one declaration for every state with one flag set
C18_AsStated ==
    /\ TranslatorSelection
    /\ (VertexGenerated /\ ExactlyOneTranslator) =>
          CountIn(source["vertex"], FixedFunctionFogDeclarations)
             + CountIn(source["vertex"], ProgramFogDeclarations) = 1

C18_Witness ==
    /\ VertexGenerated
    /\ ~state.fixed_function
    /\ state.vertex_program
    /\ state.fog_enable
    /\ HasLine(source["vertex"], ProgramMark)
    /\ CountIn(source["vertex"], ProgramFogDeclarations) = 1

(***************************************************************************)
(* C19: sampler units.  Once the program has linked and the sampler loop   *)
(* has run, for each texture stage i in 0..3 the uniform texSamp<i> has    *)
(* been written exactly when the driver reports it present, and then with  *)
(* the unit i; no write is made for a sampler whose lookup gives the       *)
(* sentinel, nor before or without a successful link.  Every such write    *)
(* comes after glUseProgram and before glValidateProgram.                  *)
(***************************************************************************)
SamplerWrite(i) == "glUniform1i:texSamp" \o D(i)

SamplerWrites == { SamplerWrite(i) : i \in 0..NV2A_MAX_TEXTURES - 1 }

\* the position of the first occurrence of a call, 0 when it was not made
CallIndex(call) ==
    IF Called(call)
    THEN CHOOSE k \in 1..Len(gl_calls) :
            gl_calls[k] = call /\ \A j \in 1..k - 1 : gl_calls[j] # call
    ELSE 0

SamplersDone == Linked /\ pc # "samplers"

C19_SamplerUnits ==
    /\ SamplersDone =>
          \A i \in 0..NV2A_MAX_TEXTURES - 1 :
             IF glGetUniformLocation(driver, "texSamp", i) >= 0
             THEN /\ Count(gl_calls, SamplerWrite(i)) = 1
                  /\ sampler_unit[i] = i
             ELSE /\ ~Called(SamplerWrite(i))
                  /\ sampler_unit[i] = -1
    /\ ~SamplersDone =>
          \A i \in 0..NV2A_MAX_TEXTURES - 1 :
             ~Called(SamplerWrite(i)) /\ sampler_unit[i] = -1
    /\ \A k \in 1..Len(gl_calls) :
          gl_calls[k] \in SamplerWrites =>
             /\ CallIndex("glUseProgram") > 0
             /\ CallIndex("glUseProgram") < k
             /\ Called("glValidateProgram") => k < CallIndex("glValidateProgram")

\* samplers 1 and 3 are present, 0 and 2 are not, and validation has run
C19_Witness ==
    /\ driver = "some"
    /\ Called("glValidateProgram")
    /\ Called(SamplerWrite(1))
    /\ ~Called(SamplerWrite(0))
    /\ sampler_unit = [i \in 0..NV2A_MAX_TEXTURES - 1 |->
                          IF i \in {1, 3} THEN i ELSE -1]

(***************************************************************************)
(* C20: fixed emission order.  In the vertex text of every fixed-function  *)
(* state the lines of the stages come in this order, a stage that prints   *)
(* nothing being skipped: attribute decompression, skinning of the         *)
(* position, skinning of the normal, normalization, texgen of the stages   *)
(* 0, 1, 2, 3, texture matrices, lighting or pass-through, fog distance,   *)
(* final transform, point size, the assignment of vtx.inv_w, fog factor,   *)
(* output packing.  The reset "tPosition = position" is printed exactly    *)
(* when skinning is off, after every line of texgen, lighting and fog      *)
(* distance and before the line computing oPos; vtx.inv_w is assigned      *)
(* after oPos and before every output line that multiplies by it.          *)
(***************************************************************************)
ResetLine == "  tPosition = position;"

OPosLine == "   oPos = invViewport * (tPosition * compositeMat);"

InvWLine == "  vtx.inv_w = 1.0 / oPos.w;"

\* the output lines that multiply by vtx.inv_w
PackedOutputLines ==
    { "  vtx.D0 = clamp(oD0, 0.0, 1.0) * vtx.inv_w;",
      "  vtx.D1 = clamp(oD1, 0.0, 1.0) * vtx.inv_w;",
      "  vtx.B0 = clamp(oB0, 0.0, 1.0) * vtx.inv_w;",
      "  vtx.B1 = clamp(oB1, 0.0, 1.0) * vtx.inv_w;",
      "  vtx.Fog = oFog.x * vtx.inv_w;" }
    \cup { "  vtx.T" \o D(i) \o " = oT" \o D(i) \o " * vtx.inv_w;" :
             i \in 0..NV2A_MAX_TEXTURES - 1 }

SkinLines(output) ==
    { r.text : r \in { x \in SkinStatements : x.output = output } }

TexgenMark(i) == "/* Texgen for stage " \o D(i) \o " */"

\* the lines by which each stage is recognised, in the order of the stages
StageLines ==
    << { "vec4 v" \o D(i) \o " = decompress_11_11_10(v" \o D(i) \o "_cmp);" :
           i \in 0..NV2A_VERTEXSHADER_ATTRIBUTES - 1 },
       SkinLines("tPosition"),
       SkinLines("tNormal"),
       { "tNormal = normalize(tNormal);" },
       { TexgenMark(0) }, { TexgenMark(1) }, { TexgenMark(2) }, { TexgenMark(3) },
       { "oT" \o D(i) \o " = oT" \o D(i) \o " * texMat" \o D(i) \o ";" :
           i \in 0..NV2A_MAX_TEXTURES - 1 },
       { "/* Light " \o D(i) \o " */ {" : i \in 0..NV2A_MAX_LIGHTS - 1 }
          \cup { "  oD0 = diffuse;", "  oD1 = specular;",
                 "  oB0 = backDiffuse;", "  oB1 = backSpecular;" },
       FixedFunctionFogDeclarations \cup { "  fogDistance = abs(fogDistance);" },
       { ResetLine, OPosLine, "   oPos.z = oPos.z * 2.0 - oPos.w;" },
       { "  float d_e = length(position * modelViewMat0);",
         "  oPts.x = " \o F(state.point_size) \o " * "
            \o D(state.surface_scale_factor) \o ";" },
       { InvWLine },
       { "  float fogFactor = fogParam[0] + fogDistance * fogParam[1];",
         "  float fogFactor = fogParam[0] + exp2(fogDistance * fogParam[1] * 16.0);",
         "  float fogFactor = fogParam[0] + exp2(-fogDistance * fogDistance * fogParam[1] * fogParam[1] * 32.0);",
         "  if (isinf(fogDistance)) {", BiasLine("1.0"), BiasLine("1.5"), AbsLine,
         "  oFog.xyzw = vec4(fogFactor);", "  oFog.xyzw = vec4(1.0);" },
       PackedOutputLines \cup { "  gl_Position = oPos;", "  gl_PointSize = oPts.x;" } >>

\* the stages that print something for every fixed-function state
AlwaysPrinted == (2..3) \cup (5..8) \cup {10} \cup (12..16)

Positions(code, lines) == { k \in 1..Len(code) : code[k] \in lines }

\* every line of the first set comes before every line of the second
AllBefore(code, first, second) ==
    \A j \in Positions(code, first), k \in Positions(code, second) : j < k

\* the stage of sl a line belongs to, 0 for a line of no stage
StageOf(sl, line) ==
    IF \E a \in 1..Len(sl) : line \in sl[a]
    THEN CHOOSE a \in 1..Len(sl) : line \in sl[a]
    ELSE 0

\* the stages of the lines of a text, in the order of the text
StagesOf(code) ==
    LET sl == StageLines
    IN  SelectSeq([k \in 1..Len(code) |-> StageOf(sl, code[k])],
                  LAMBDA a : a # 0)

C20_FixedEmissionOrder ==
    (state.fixed_function /\ VertexGenerated) =>
        LET code == source["vertex"]
            stages == StagesOf(code)
        IN  /\ \A k \in 1..Len(stages) - 1 : stages[k] <= stages[k + 1]
            /\ \A a \in AlwaysPrinted : \E k \in 1..Len(stages) : stages[k] = a
            /\ Count(code, ResetLine)
                  = IF state.skinning = "SKINNING_OFF" THEN 1 ELSE 0
            /\ AllBefore(code, { ResetLine }, { OPosLine })
            /\ Count(code, OPosLine) = 1
            /\ Count(code, InvWLine) = 1
            /\ AllBefore(code, { OPosLine }, { InvWLine })
            /\ AllBefore(code, { InvWLine }, PackedOutputLines)
            /\ \A l \in PackedOutputLines : HasLine(code, l)

\* skinning off with every optional stage printed: the reset lies between
\* the fog distance and oPos
C20_Witness ==
    /\ state = RichState("SKINNING_OFF")
    /\ VertexGenerated
    /\ LET stages == StagesOf(source["vertex"])
       IN  \A a \in 1..Len(StageLines) : \E k \in 1..Len(stages) : stages[k] = a
    /\ \E k \in 2..Len(source["vertex"]) - 1 :
          /\ source["vertex"][k - 1] = "  float fogDistance = length(tPosition.xyz);"
          /\ source["vertex"][k] = ResetLine
          /\ source["vertex"][k + 1] = OPosLine

(***************************************************************************)
(* C21: attribute declarations.  For every compressed-attribute mask and   *)
(* every attribute i in 0..15 the vertex text declares attribute i once,   *)
(* at location i: when bit i is set as the integer input v<i>_cmp, with    *)
(* one statement defining vec4 v<i> by decompress_11_11_10, and when bit i *)
(* is clear as the vec4 input v<i>, with no such statement.  The input     *)
(* declarations come before "void main() {" and the decompression          *)
(* statements are the first statements of main, before the translator's.   *)
(***************************************************************************)
MainLine == "void main() {"

CompressedDecl(i) == "layout(location = " \o D(i) \o ") in int v" \o D(i) \o "_cmp;"

PlainDecl(i) == "layout(location = " \o D(i) \o ") in vec4 v" \o D(i) \o ";"

DecompressLine(i) ==
    "vec4 v" \o D(i) \o " = decompress_11_11_10(v" \o D(i) \o "_cmp);"

Attributes == 0..NV2A_VERTEXSHADER_ATTRIBUTES - 1

C21_AttributeDeclarations ==
    VertexGenerated =>
        LET code == source["vertex"]
            main == Positions(code, { MainLine })
            m == CHOOSE k \in main : TRUE
            decls(i) == Positions(code, { CompressedDecl(i), PlainDecl(i) })
        IN  /\ Cardinality(main) = 1
            /\ \A i \in Attributes :
                  /\ Cardinality(decls(i)) = 1
                  /\ \A k \in decls(i) : k < m
                  /\ IF i \in state.compressed_attrs
                     THEN /\ HasLine(code, CompressedDecl(i))
                          /\ Count(code, DecompressLine(i)) = 1
                     ELSE /\ HasLine(code, PlainDecl(i))
                          /\ ~HasLine(code, DecompressLine(i))
            /\ Positions(code, { DecompressLine(i) : i \in Attributes })
                  = (m + 1)..(m + Cardinality(state.compressed_attrs))

\* the bits 0, 7 and 15 are set and a vertex program follows
C21_Witness ==
    /\ VertexGenerated
    /\ state.vertex_program
    /\ state.compressed_attrs = {0, 7, 15}
    /\ HasLine(source["vertex"], CompressedDecl(15))
    /\ HasLine(source["vertex"], PlainDecl(14))
    /\ \E k \in 1..Len(source["vertex"]) - 1 :
          /\ source["vertex"][k] = DecompressLine(15)
          /\ source["vertex"][k + 1] = ProgramMark

(***************************************************************************)
(* C22: texgen.  For a fixed-function state whose other stages reach no    *)
(* assert, generate_vertex_shader fails an assert exactly when some        *)
(* component holds sphere-map on R or Q, reflection-map or normal-map on   *)
(* Q, or a value outside the six modes; otherwise the text holds exactly   *)
(* one assignment to each of the 16 outputs oT<i>.<c>, an eye-linear       *)
(* component being the dot product with tPosition (after skinning) and an  *)
(* object-linear component the dot product with position (before it).     *)
(***************************************************************************)
TexgenOut(i, j) == "oT" \o D(i) \o "." \o Swz(j)

EyeLinearLine(i, j) ==
    TexgenOut(i, j) \o " = dot(texPlane" \o StrqSuffix(j) \o D(i) \o ", tPosition);"

ObjectLinearLine(i, j) ==
    TexgenOut(i, j) \o " = dot(texPlane" \o StrqSuffix(j) \o D(i) \o ", position);"

\* the statements that assign the output of stage i, component j
TexgenAssignments(i, j) ==
    { TexgenOut(i, j) \o " = texture" \o D(i) \o "." \o Swz(j) \o ";",
      EyeLinearLine(i, j),
      ObjectLinearLine(i, j),
      "  " \o TexgenOut(i, j) \o " = r." \o Swz(j) \o " * invM + 0.5;",
      "  " \o TexgenOut(i, j) \o " = r." \o Swz(j) \o ";",
      TexgenOut(i, j) \o " = tNormal." \o Swz(j) \o ";" }

\* some component breaks a restriction the claim lists
TexgenRestrictionViolated ==
    \E i \in 1..NV2A_MAX_TEXTURES, j \in 1..4 :
       ~TexgenAllowed(j - 1, state.texgen[i][j])

\* no stage other than texgen reaches an assert
OtherStagesPass ==
    /\ state.fixed_function
    /\ UnitySumBones(state.skinning) > 0 \/ state.skinning = "SKINNING_OFF"
    /\ state.lighting => \A i \in 1..NV2A_MAX_LIGHTS : state.light[i] \in LightTypes
    /\ state.fog_enable =>
          state.foggen \in FoggenModes /\ state.fog_mode \in FogModes

C22_TexgenAsStated ==
    OtherStagesPass =>
        /\ VertexCalled => (VertexAssertFailed <=> TexgenRestrictionViolated)
        /\ VertexGenerated =>
              \A i \in 0..NV2A_MAX_TEXTURES - 1, j \in 0..3 :
                 /\ CountIn(source["vertex"], TexgenAssignments(i, j)) = 1
                 /\ state.texgen[i + 1][j + 1] = "TEXGEN_EYE_LINEAR" =>
                       HasLine(source["vertex"], EyeLinearLine(i, j))
                 /\ state.texgen[i + 1][j + 1] = "TEXGEN_OBJECT_LINEAR" =>
                       HasLine(source["vertex"], ObjectLinearLine(i, j))

\* object-linear on an allowed component, and the generator aborted
C22_Witness ==
    /\ OtherStagesPass
    /\ state.texgen[1][1] = "TEXGEN_OBJECT_LINEAR"
    /\ ~TexgenRestrictionViolated
    /\ VertexAssertFailed

(***************************************************************************)
(* C23: lighting in the fixed-function text.  With lighting disabled the   *)
(* text assigns oD0 = diffuse and oD1 = specular and has no per-light      *)
(* block.  With lighting enabled it has exactly one block for each slot    *)
(* whose type is not off, in ascending slot order, and each block adds its *)
(* ambient and diffuse terms to oD0 and its specular term to oD1; a light  *)
(* type outside off, infinite, local and spot fails an assert.  oB0 and    *)
(* oB1 are passed through in both cases.                                   *)
(***************************************************************************)
LightMark(i) == "/* Light " \o D(i) \o " */ {"

LightMarks == { LightMark(i) : i \in 0..NV2A_MAX_LIGHTS - 1 }

\* the statements that add a light's contribution to the colour outputs
AccumulateAmbient == "  oD0.xyz += lightAmbient;"

AccumulateDiffuse == "  oD0.xyz += diffuse.xyz * lightDiffuse;"

AccumulateSpecular == "  oD1.xyz += specular.xyz * lightSpecular;"

Accumulations == { AccumulateAmbient, AccumulateDiffuse, AccumulateSpecular }

\* the marks of the slots that are not off, in ascending slot order
RECURSIVE ExpectedLightMarks(_, _)
ExpectedLightMarks(light, i) ==
    IF i > Len(light) THEN << >>
    ELSE (IF light[i] = "LIGHT_OFF" THEN << >> ELSE << LightMark(i - 1) >>)
         \o ExpectedLightMarks(light, i + 1)

\* in the light part of the text every mark is followed by one of each
\* accumulation before the next mark, and nothing is accumulated before the
\* first mark
RECURSIVE OneOfEachPerBlock(_)
OneOfEachPerBlock(part) ==
    IF part = << >> THEN TRUE
    ELSE /\ Len(part) >= 4
         /\ part[1] \in LightMarks
         /\ part[2] = AccumulateAmbient
         /\ part[3] = AccumulateDiffuse
         /\ part[4] = AccumulateSpecular
         /\ OneOfEachPerBlock(SubSeq(part, 5, Len(part)))

C23_Lighting ==
    /\ (state.fixed_function /\ VertexGenerated) =>
          LET code == source["vertex"]
              part == SelectSeq(code, LAMBDA l : l \in LightMarks \cup Accumulations)
          IN  /\ Count(code, "  oB0 = backDiffuse;") = 1
              /\ Count(code, "  oB1 = backSpecular;") = 1
              /\ ~state.lighting =>
                    /\ Count(code, "  oD0 = diffuse;") = 1
                    /\ Count(code, "  oD1 = specular;") = 1
                    /\ part = << >>
              /\ state.lighting =>
                    /\ SelectSeq(part, LAMBDA l : l \in LightMarks)
                          = ExpectedLightMarks(state.light, 1)
                    /\ OneOfEachPerBlock(part)
                    /\ \A i \in 1..NV2A_MAX_LIGHTS : state.light[i] \in LightTypes
    /\ (state.fixed_function /\ state.lighting /\ VertexCalled
           /\ \E i \in 1..NV2A_MAX_LIGHTS : state.light[i] \notin LightTypes) =>
          VertexAssertFailed

\* lighting enabled with lights of every type and two slots off
C23_Witness ==
    /\ state.fixed_function
    /\ state.lighting
    /\ state.light = AllLights
    /\ VertexGenerated
    /\ Len(SelectSeq(source["vertex"], LAMBDA l : l \in LightMarks)) = 6

(***************************************************************************)
(* The value the emitted point-size statement gives oPts.x.  The statement *)
(* is recognised by its text; x is the value oPts.x holds before it.       *)
(***************************************************************************)
MaxPointSize == 20

PointSizeInputs == 0..MaxPointSize

MaxParam == 8

MaxScale == 4

Min(a, b) == IF a < b THEN a ELSE b

\* "  oPts.x = min(oPts.x*%f + %f, 64.0) * %d;" and "  oPts.x = %f * %d;",
\* and the form with the clamp outermost
PointSizeStatements ==
    { [line |-> "  oPts.x = min(oPts.x*" \o F(a) \o " + " \o F(b)
                   \o ", 64.0) * " \o D(s) \o ";",
       op |-> "attenuated", mul |-> a, add |-> b, scale |-> s] :
         a \in 1..MaxParam, b \in 1..MaxParam, s \in 1..MaxScale }
    \cup
    { [line |-> "  oPts.x = min((oPts.x*" \o F(a) \o " + " \o F(b)
                   \o ") * " \o D(s) \o ", 64.0);",
       op |-> "clamp_last", mul |-> a, add |-> b, scale |-> s] :
         a \in 1..MaxParam, b \in 1..MaxParam, s \in 1..MaxScale }
    \cup
    { [line |-> "  oPts.x = " \o F(a) \o " * " \o D(s) \o ";",
       op |-> "fixed", mul |-> a, add |-> 0, scale |-> s] :
         a \in 1..MaxParam, s \in 1..MaxScale }

\* the point-size statements of a text, in order
PointSizeCode(code) ==
    LET table == PointSizeStatements
        lines == { st.line : st \in table }
        found == SelectSeq(code, LAMBDA l : l \in lines)
    IN  [k \in 1..Len(found) |-> CHOOSE st \in table : st.line = found[k]]

PointSizeValue(st, x) ==
    CASE st.op = "attenuated" -> Min(x * st.mul + st.add, 64) * st.scale
      [] st.op = "clamp_last" -> Min((x * st.mul + st.add) * st.scale, 64)
      [] st.op = "fixed" -> st.mul * st.scale

(***************************************************************************)
(* C24: point size.  The fixed-function text holds one point-size          *)
(* statement: the distance-attenuated one exactly when                     *)
(* point_params_enable is set, else the fixed point size; both multiply by *)
(* surface_scale_factor, and the attenuated one clamps to 64 before the    *)
(* multiplication, so its value never exceeds 64 * surface_scale_factor    *)
(* and reaches it.                                                         *)
(***************************************************************************)
DistanceLine == "  float d_e = length(position * modelViewMat0);"

C24_PointSize ==
    (state.fixed_function /\ VertexGenerated) =>
        LET stmts == PointSizeCode(source["vertex"])
            st == stmts[1]
        IN  /\ Len(stmts) = 1
            /\ st.scale = state.surface_scale_factor
            /\ state.point_params_enable =>
                  /\ st.op = "attenuated"
                  /\ HasLine(source["vertex"], DistanceLine)
                  /\ \A x \in PointSizeInputs :
                        PointSizeValue(st, x) <= 64 * state.surface_scale_factor
                  /\ \E x \in PointSizeInputs :
                        PointSizeValue(st, x) = 64 * state.surface_scale_factor
            /\ ~state.point_params_enable =>
                  /\ st.op = "fixed"
                  /\ ~HasLine(source["vertex"], DistanceLine)
                  /\ \A x \in PointSizeInputs :
                        PointSizeValue(st, x)
                           = state.point_size * state.surface_scale_factor

\* the attenuated statement with scale factor 4 gives a point size above 64
C24_Witness ==
    /\ state.fixed_function
    /\ state.point_params_enable
    /\ state.surface_scale_factor = 4
    /\ VertexGenerated
    /\ LET stmts == PointSizeCode(source["vertex"])
       IN  /\ Len(stmts) = 1
           /\ \E x \in PointSizeInputs : PointSizeValue(stmts[1], x) = 256

(***************************************************************************)
(* C25: the numbers the distance-attenuated point-size statement prints    *)
(* are elements 0..6 of state.point_params, the seven floats of the data   *)
(* model.                                                                  *)
(***************************************************************************)
\* "point-size parameters (7 floats)": the declaration is in shaders.h
PointParamsCount == 7

\* the values held at the indices of the array
PointParamsInside(s) == { s.point_params[k + 1] : k \in 0..PointParamsCount - 1 }

C25_ReadsInsideArray ==
    (state.fixed_function /\ state.point_params_enable /\ VertexGenerated) =>
        /\ \A n \in 1..Len(PointParamsRead) :
              PointParamsRead[n] \in 0..PointParamsCount - 1
        /\ LET stmts == PointSizeCode(source["vertex"])
           IN  \A k \in 1..Len(stmts) :
                  /\ stmts[k].mul \in PointParamsInside(state)
                  /\ stmts[k].add \in PointParamsInside(state)

\* the emitted statement adds the value read at index 7
C25_Witness ==
    /\ state.fixed_function
    /\ state.point_params_enable
    /\ VertexGenerated
    /\ LET stmts == PointSizeCode(source["vertex"])
       IN  /\ Len(stmts) = 1
           /\ stmts[1].add = state.point_params[PointParamsCount + 1]
           /\ stmts[1].add \notin PointParamsInside(state)

(***************************************************************************)
(* C26: fog.  In a state with exactly one translator flag the fog-factor   *)
(* code follows the translator's code.  With fog enabled the text declares *)
(* fogDistance exactly once, before the fog-factor expression: in the      *)
(* fixed-function path from state.foggen, a foggen outside the five modes  *)
(* failing an assert; in the vertex-program path from oFog.x whatever      *)
(* foggen holds; and oFog is set to fogFactor.  With fog disabled no line  *)
(* mentions fogDistance or fogFactor and oFog is set to 1.0.               *)
(***************************************************************************)
\* the declaration the fixed-function path prints for a fog generation mode
FoggenDeclaration(foggen) ==
    CASE foggen = "FOGGEN_SPEC_ALPHA" ->
            "  float fogDistance = clamp(specular.a, 0.0, 1.0);"
      [] foggen = "FOGGEN_RADIAL" ->
            "  float fogDistance = length(tPosition.xyz);"
      [] foggen \in {"FOGGEN_PLANAR", "FOGGEN_ABS_PLANAR"} ->
            "  float fogDistance = dot(fogPlane.xyz, tPosition.xyz) + fogPlane.w;"
      [] foggen = "FOGGEN_FOG_X" ->
            "  float fogDistance = fogCoord;"

FogDistanceDeclarations == FixedFunctionFogDeclarations \cup ProgramFogDeclarations

\* the declarations of fogFactor
FogFactorExpressions ==
    { "  float fogFactor = fogParam[0] + fogDistance * fogParam[1];",
      "  float fogFactor = fogParam[0] + exp2(fogDistance * fogParam[1] * 16.0);",
      "  float fogFactor = fogParam[0] + exp2(-fogDistance * fogDistance * fogParam[1] * fogParam[1] * 32.0);" }

OFogFactorLine == "  oFog.xyzw = vec4(fogFactor);"

OFogOneLine == "  oFog.xyzw = vec4(1.0);"

\* every line of the fog-factor code
FogFactorLines ==
    FogFactorExpressions
    \cup { "  if (isinf(fogDistance)) {", "    fogDistance = 0.0;",
           BiasLine("1.0"), BiasLine("1.5"), AbsLine, OFogFactorLine, OFogOneLine }

\* every line that mentions fogDistance or fogFactor
FogLines ==
    (FogFactorLines \ { OFogOneLine })
    \cup FogDistanceDeclarations \cup { "  fogDistance = abs(fogDistance);" }

\* the last line of each translator's code
TranslatorLastLines == { InvWLine, ProgramMark }

C26_FogAfterTranslator ==
    /\ (ExactlyOneTranslator /\ VertexGenerated) =>
          LET code == source["vertex"]
          IN  /\ CountIn(code, TranslatorLastLines) = 1
              /\ AllBefore(code, TranslatorLastLines, FogFactorLines)
              /\ CountIn(code, { OFogFactorLine, OFogOneLine }) = 1
              /\ state.fog_enable =>
                    /\ CountIn(code, FogDistanceDeclarations) = 1
                    /\ CountIn(code, FogFactorExpressions) = 1
                    /\ AllBefore(code, FogDistanceDeclarations, FogFactorExpressions)
                    /\ AllBefore(code, FogFactorExpressions, { OFogFactorLine })
                    /\ HasLine(code, OFogFactorLine)
                    /\ state.vertex_program =>
                          /\ CountIn(code, ProgramFogDeclarations) = 1
                          /\ AllBefore(code, { ProgramMark }, ProgramFogDeclarations)
                          /\ ~HasLine(code, "  fogDistance = abs(fogDistance);")
                    /\ state.fixed_function =>
                          /\ state.foggen \in FoggenModes
                          /\ HasLine(code, FoggenDeclaration(state.foggen))
                          /\ HasLine(code, "  fogDistance = abs(fogDistance);")
                                <=> state.foggen = "FOGGEN_ABS_PLANAR"
                          /\ AllBefore(code, FixedFunctionFogDeclarations, { InvWLine })
              /\ ~state.fog_enable =>
                    /\ CountIn(code, FogLines) = 0
                    /\ HasLine(code, OFogOneLine)
    /\ (ExactlyOneTranslator /\ VertexCalled /\ state.fog_enable
           /\ state.foggen \notin FoggenModes) =>
          (VertexAssertFailed <=> state.fixed_function)

\* a vertex-program state with fog enabled and a foggen outside the five
\* modes: the text is generated and declares fogDistance from oFog.x
C26_Witness ==
    /\ state.vertex_program
    /\ ~state.fixed_function
    /\ state.fog_enable
    /\ state.foggen = "FOGGEN_INVALID"
    /\ VertexGenerated
    /\ CountIn(source["vertex"], ProgramFogDeclarations) = 1

(***************************************************************************)
(* C27: for the pairs (linear, linear-abs), (exp, exp-abs) and (exp2,      *)
(* exp2-abs) the text generated with the -abs mode is the text generated   *)
(* with the non-abs mode, the guard on an infinite fogDistance included,   *)
(* with the absolute-value statement added after the fog-factor code and   *)
(* no other difference.                                                    *)
(***************************************************************************)
NonAbsMode(fog_mode) ==
    CASE fog_mode = "FOG_MODE_LINEAR_ABS" -> "FOG_MODE_LINEAR"
      [] fog_mode = "FOG_MODE_EXP_ABS" -> "FOG_MODE_EXP"
      [] fog_mode = "FOG_MODE_EXP2_ABS" -> "FOG_MODE_EXP2"

\* the text with the absolute-value statement taken out
WithoutAbs(code) == SelectSeq(code, LAMBDA l : l # AbsLine)

\* the absolute-value statement occurs once, right before oFog is set
AbsFollows(code) ==
    /\ Count(code, AbsLine) = 1
    /\ \A k \in 1..Len(code) :
          code[k] = AbsLine =>
             /\ k > 1 /\ code[k - 1] \in { BiasLine("1.0"), BiasLine("1.5") }
             /\ k < Len(code) /\ code[k + 1] = OFogFactorLine

\* the pair of the state's -abs mode differs by the absolute-value statement
AbsPairAgrees ==
    LET plain == generate_vertex_shader(
                    [state EXCEPT !.fog_mode = NonAbsMode(state.fog_mode)],
                    vtx_prefix)
    IN  /\ ~plain.fatal
        /\ ~HasLine(plain.code, AbsLine)
        /\ AbsFollows(source["vertex"])
        /\ WithoutAbs(source["vertex"]) = plain.code

C27_AbsPairs ==
    (state.fog_enable /\ VertexGenerated /\ state.fog_mode \in AbsFogModes) =>
        AbsPairAgrees

\* the two pairs whose texts do differ by the absolute-value statement alone
C27_OtherPairs ==
    (state.fog_enable /\ VertexGenerated
        /\ state.fog_mode \in {"FOG_MODE_LINEAR_ABS", "FOG_MODE_EXP2_ABS"}) =>
        AbsPairAgrees

\* exp-abs: generated without the guard that exp prints
C27_Witness ==
    /\ state.fog_enable
    /\ state.fog_mode = "FOG_MODE_EXP_ABS"
    /\ VertexGenerated
    /\ AbsFollows(source["vertex"])
    /\ ~HasLine(source["vertex"], IsinfGuard[1])
    /\ HasLine(generate_vertex_shader([state EXCEPT !.fog_mode = "FOG_MODE_EXP"],
                                      vtx_prefix).code, IsinfGuard[1])

(***************************************************************************)
(* C28: the interface block.  When generate_geometry_shader returned a     *)
(* program the vertex text declares its VertexData output as v_vtx, the    *)
(* block the geometry text reads and re-emits as g_vtx; when it returned   *)
(* none the vertex text declares g_vtx.  In every linked program g_vtx is  *)
(* declared as an output by exactly one stage, and the geometry stage is   *)
(* attached exactly when the vertex text uses the prefix v.                *)
(***************************************************************************)
OutBlock(prefix) == "noperspective out VertexData " \o prefix \o "_vtx;"

DefineVtx(prefix) == "#define vtx " \o prefix \o "_vtx"

\* the vertex text names its output block with this prefix and no other
VertexWrites(prefix) ==
    /\ Count(source["vertex"], OutBlock(prefix)) = 1
    /\ Count(source["vertex"], DefineVtx(prefix)) = 1
    /\ CountIn(source["vertex"], { OutBlock("v"), OutBlock("g") }) = 1
    /\ CountIn(source["vertex"], { DefineVtx("v"), DefineVtx("g") }) = 1

C28_InterfaceBlock ==
    /\ GeometryGenerated =>
          /\ Count(source["geometry"], "noperspective in VertexData v_vtx[];") = 1
          /\ Count(source["geometry"], OutBlock("g")) = 1
          /\ Count(source["geometry"], OutBlock("v")) = 0
          /\ Count(source["geometry"], "  g_vtx = v_vtx[index];") = 1
    /\ VertexGenerated =>
          /\ GeometryGenerated => (VertexWrites("v") /\ vtx_prefix = "v")
          /\ ~GeometryGenerated => (VertexWrites("g") /\ vtx_prefix = "g")
    /\ Linked =>
          /\ Count(source["geometry"] \o source["vertex"], OutBlock("g")) = 1
          /\ GeometryAttached <=> VertexWrites("v")
          /\ GeometryAttached <=> GeometryGenerated

\* a linked program with a geometry stage between the vertex stage and g_vtx
C28_Witness ==
    /\ Linked
    /\ GeometryAttached
    /\ VertexWrites("v")
    /\ Count(source["geometry"], OutBlock("g")) = 1

(***************************************************************************)
(* C29: for every generated geometry text and every primitive id, the      *)
(* vertices emitted for one input primitive are at most the max_vertices   *)
(* of the text's output layout, primitive 0 emits exactly max_vertices,    *)
(* only input vertices of the input layout are emitted (0..2 for           *)
(* triangles, 0..3 for lines_adjacency), and a primitive that emits a      *)
(* vertex ends with exactly one EndPrimitive.                              *)
(***************************************************************************)
\* max_vertices of the output layout line of a text
DeclaredMaxVertices(code) ==
    CASE HasLine(code, LayoutOutLineStrip4) -> 4
      [] HasLine(code, LayoutOutLineStrip5) -> 5
      [] HasLine(code, LayoutOutTriangleStrip4) -> 4

\* the number of vertices of one input primitive of the input layout line
InputVertices(code) ==
    CASE HasLine(code, LayoutInTriangles) -> 3
      [] HasLine(code, LayoutInLinesAdjacency) -> 4

OneLayoutEach(code) ==
    /\ CountIn(code, { LayoutOutLineStrip4, LayoutOutLineStrip5,
                       LayoutOutTriangleStrip4 }) = 1
    /\ CountIn(code, { LayoutInTriangles, LayoutInLinesAdjacency }) = 1

C29_EmissionWithinLayout ==
    GeometryGenerated =>
        LET code == source["geometry"]
        IN  /\ OneLayoutEach(code)
            /\ \A k \in 1..Len(emitted) :
                  LET vs == Vertices(emitted[k])
                  IN  /\ Len(vs) <= DeclaredMaxVertices(code)
                      /\ k = 1 => Len(vs) = DeclaredMaxVertices(code)
                      /\ \A n \in 1..Len(vs) :
                            vs[n] \in { VertexEvent(v) :
                                          v \in 0..InputVertices(code) - 1 }
                      /\ vs # << >> => OnePrimitive(emitted[k])
                      /\ vs = << >> => emitted[k] = << >>

\* a quad strip drawn as lines: primitive 0 fills the 5 declared vertices,
\* primitive 1 emits nothing and primitive 2 emits 4
C29_Witness ==
    /\ GeometryGenerated
    /\ HasLine(source["geometry"], LayoutOutLineStrip5)
    /\ Len(emitted) >= 3
    /\ Len(Vertices(emitted[1])) = 5
    /\ emitted[2] = << >>
    /\ Len(Vertices(emitted[3])) = 4

(***************************************************************************)
(* C30: declarations before use in the fixed-function vertex text.  Every  *)
(* header line, the light uniforms included, comes before "void main()     *)
(* {".  For slot i, lightLocalPosition<i> and lightLocalAttenuation<i> are *)
(* declared exactly once when lighting is enabled and light i is local or  *)
(* spot, and not at all otherwise; lightInfiniteHalfVector<i> and          *)
(* lightInfiniteDirection<i> exactly once when lighting is enabled and     *)
(* light i is infinite, and not at all otherwise.  Each light block        *)
(* declares attenuation, nDotVP and nDotHV exactly once.                   *)
(***************************************************************************)
LocalUniforms(i) ==
    { "uniform vec3 lightLocalPosition" \o D(i) \o ";",
      "uniform vec3 lightLocalAttenuation" \o D(i) \o ";" }

InfiniteUniforms(i) ==
    { "uniform vec3 lightInfiniteHalfVector" \o D(i) \o ";",
      "uniform vec3 lightInfiniteDirection" \o D(i) \o ";" }

LightSlots == 0..NV2A_MAX_LIGHTS - 1

LightUniforms == UNION { LocalUniforms(i) \cup InfiniteUniforms(i) : i \in LightSlots }

\* the text holds the lines of part, in one piece, ending before line m
PieceBefore(code, part, m) ==
    \E s \in 1..m :
       /\ s + Len(part) - 1 < m
       /\ SubSeq(code, s, s + Len(part) - 1) = part

\* the declarations of the three locals of a light block (first line of each)
AttenuationDecls ==
    { "  float attenuation = 1.0;" }
    \cup { "  float attenuation = 1.0 / (lightLocalAttenuation" \o D(i) \o ".x" :
              i \in LightSlots }

NDotVPDecls ==
    { "  float nDotVP = max(0.0, dot(tNormal, VP));" }
    \cup { "  float nDotVP = max(0.0, dot(tNormal, normalize(vec3(lightInfiniteDirection"
              \o D(i) \o "))));" : i \in LightSlots }

NDotHVDecls ==
    { "  float nDotHV = max(0.0, dot(tNormal, halfVector));" }
    \cup { "  float nDotHV = max(0.0, dot(tNormal, vec3(lightInfiniteHalfVector"
              \o D(i) \o ")));" : i \in LightSlots }

\* marks and declarations come in groups of four: a mark, then one
\* declaration of each of the three locals
RECURSIVE OneDeclarationEach(_)
OneDeclarationEach(part) ==
    IF part = << >> THEN TRUE
    ELSE /\ Len(part) >= 4
         /\ part[1] \in LightMarks
         /\ \A ds \in { AttenuationDecls, NDotVPDecls, NDotHVDecls } :
               CountIn(SubSeq(part, 2, 4), ds) = 1
         /\ OneDeclarationEach(SubSeq(part, 5, Len(part)))

C30_DeclarationsBeforeUse ==
    (state.fixed_function /\ VertexGenerated) =>
        LET code == source["vertex"]
            decls == AttenuationDecls \cup NDotVPDecls \cup NDotHVDecls
        IN  /\ Count(code, MainLine) = 1
            /\ \A m \in Positions(code, { MainLine }) :
                  /\ PieceBefore(code, VertexHeader, m)
                  /\ PieceBefore(code, FixedFunctionHeader, m)
            /\ AllBefore(code, LightUniforms, { MainLine })
            /\ AllBefore(code, { MainLine }, LightMarks \cup decls)
            /\ \A i \in LightSlots :
                  /\ \A u \in LocalUniforms(i) :
                        Count(code, u)
                           = IF state.lighting
                                 /\ state.light[i + 1] \in {"LIGHT_LOCAL", "LIGHT_SPOT"}
                             THEN 1 ELSE 0
                  /\ \A u \in InfiniteUniforms(i) :
                        Count(code, u)
                           = IF state.lighting /\ state.light[i + 1] = "LIGHT_INFINITE"
                             THEN 1 ELSE 0
            /\ OneDeclarationEach(
                  SelectSeq(code, LAMBDA l : l \in LightMarks \cup decls))

\* six lights of the three kinds: twelve uniforms, all ahead of main
C30_Witness ==
    /\ state.fixed_function
    /\ state.lighting
    /\ state.light = AllLights
    /\ VertexGenerated
    /\ CountIn(source["vertex"], LightUniforms) = 12
    /\ CountIn(source["vertex"], AttenuationDecls) = 6

=============================================================================
